---- MODULE Spec2Model ----
(***************************************************************************)
(* Prefix-command dispatch and authorization of the Discord bot:           *)
(*   src/src/commands/prefix-handler.ts   handleMessage, checkPermission,  *)
(*                                        executeCommand, handleMention    *)
(*   src/src/core/SecurityUtils.ts        checkCooldown, sanitizers        *)
(*   src/unnamed/part_001                 decorators, registry, parseArgs, *)
(*                                        checkCooldown, executePrefixCommand *)
(*   src/src/commands/decorated-commands.ts  the decorated commands        *)
(* Strings the code inspects character by character (role names, error     *)
(* messages, argument tokens) are sequences of one-character strings.      *)
(***************************************************************************)
EXTENDS Integers, Sequences, FiniteSets, TLC

VARIABLES
  query,     \* inputs of the pure function under check (a record)
  answer,    \* its result, NoAnswer before the call
  registry,  \* PrefixCommandRegistry and the metadata objects it refers to
  applied,   \* number of decorator applications and register calls so far
  now,       \* the reading of Date.now()
  commandCooldowns,  \* SecurityUtils.commandCooldowns: command -> user -> last use
  cooldowns, \* decorators/prefix cooldowns: command name -> user -> expiry
  hist,      \* history: per cooldown key, when it last allowed and last denied
  tasks,     \* the dispatches received so far, in order of arrival
  voiceLocks, \* voice-priority voiceLocks: the guilds whose voice is locked
  queues     \* MusicService.queues: guild id -> GuildQueue

vars == <<query, answer, registry, applied, now, commandCooldowns, cooldowns,
          hist, tasks, voiceLocks, queues>>

callVars  == <<query, answer>>
\* the module-level singletons no dispatch of a command replaces
regVars   == <<registry, applied, voiceLocks, queues>>
clockVars == <<now, commandCooldowns, cooldowns, hist>>

NoAnswer == [none |-> TRUE]

(***************************************************************************)
(* Character-level helpers (String.prototype.toLowerCase / includes).      *)
(***************************************************************************)
UpperToLower ==
  [c \in {"A","B","C","D","E","F","G","H","I","J","K","L","M","N","O","P","Q",
          "R","S","T","U","V","W","X","Y","Z"} |->
     CASE c = "A" -> "a" [] c = "B" -> "b" [] c = "C" -> "c" [] c = "D" -> "d"
       [] c = "E" -> "e" [] c = "F" -> "f" [] c = "G" -> "g" [] c = "H" -> "h"
       [] c = "I" -> "i" [] c = "J" -> "j" [] c = "K" -> "k" [] c = "L" -> "l"
       [] c = "M" -> "m" [] c = "N" -> "n" [] c = "O" -> "o" [] c = "P" -> "p"
       [] c = "Q" -> "q" [] c = "R" -> "r" [] c = "S" -> "s" [] c = "T" -> "t"
       [] c = "U" -> "u" [] c = "V" -> "v" [] c = "W" -> "w" [] c = "X" -> "x"
       [] c = "Y" -> "y" [] c = "Z" -> "z"]

toLowerCase(s) ==
  [i \in 1..Len(s) |-> IF s[i] \in DOMAIN UpperToLower THEN UpperToLower[s[i]] ELSE s[i]]

\* s.includes(sub): sub occurs in s as a contiguous run
includes(s, sub) ==
  \E i \in 0..(Len(s) - Len(sub)) : \A j \in 1..Len(sub) : s[i + j] = sub[j]

(***************************************************************************)
(* The permission rule sets of prefix-handler.ts, verbatim.                *)
(***************************************************************************)
COMMAND_PERMISSIONS ==
  ("createchannel" :> <<"ManageChannels">> @@
   "deletechannel" :> <<"ManageChannels">> @@
   "editchannel" :> <<"ManageChannels">> @@
   "createvoice" :> <<"ManageChannels">> @@
   "createforum" :> <<"ManageChannels">> @@
   "createannouncement" :> <<"ManageChannels">> @@
   "createstage" :> <<"ManageChannels">> @@
   "createcategory" :> <<"ManageChannels">> @@
   "deletecategory" :> <<"ManageChannels">> @@
   "setchannelposition" :> <<"ManageChannels">> @@
   "setchannelpositions" :> <<"ManageChannels">> @@
   "movechannel" :> <<"ManageChannels">> @@
   "organize" :> <<"ManageChannels">> @@
   "setcategoryprivate" :> <<"ManageChannels">> @@
   "setchannelprivate" :> <<"ManageChannels">> @@
   "bulkprivacy" :> <<"ManageChannels">> @@
   "channelmanagement" :> <<"ManageChannels">> @@
   "setchannelperms" :> <<"ManageChannels", "ManageRoles">> @@
   "syncchannelperms" :> <<"ManageChannels">> @@
   "createrole" :> <<"ManageRoles">> @@
   "deleterole" :> <<"ManageRoles">> @@
   "editrole" :> <<"ManageRoles">> @@
   "setrolepositions" :> <<"ManageRoles">> @@
   "setcategoryposition" :> <<"ManageRoles">> @@
   "addrole" :> <<"ManageRoles">> @@
   "removerole" :> <<"ManageRoles">> @@
   "editserver" :> <<"ManageGuild">> @@
   "editwelcome" :> <<"ManageGuild">> @@
   "setwidget" :> <<"ManageGuild">> @@
   "widgetsettings" :> <<"ManageGuild">> @@
   "prune" :> <<"KickMembers">> @@
   "previewprune" :> <<"KickMembers">> @@
   "automod" :> <<"ManageGuild">> @@
   "createautomod" :> <<"ManageGuild">> @@
   "editautomod" :> <<"ManageGuild">> @@
   "deleteautomod" :> <<"ManageGuild">> @@
   "createemoji" :> <<"ManageGuildExpressions">> @@
   "deleteemoji" :> <<"ManageGuildExpressions">> @@
   "createsticker" :> <<"ManageGuildExpressions">> @@
   "deletesticker" :> <<"ManageGuildExpressions">> @@
   "createwebhook" :> <<"ManageWebhooks">> @@
   "deletewebhook" :> <<"ManageWebhooks">> @@
   "webhooksend" :> <<"ManageWebhooks">> @@
   "createtemplate" :> <<"ManageGuild">> @@
   "synctemplate" :> <<"ManageGuild">> @@
   "deletetemplate" :> <<"ManageGuild">> @@
   "kick" :> <<"KickMembers">> @@
   "ban" :> <<"BanMembers">> @@
   "unban" :> <<"BanMembers">> @@
   "timeout" :> <<"ModerateMembers">> @@
   "removetimeout" :> <<"ModerateMembers">> @@
   "editmember" :> <<"ManageNicknames">> @@
   "bulkdelete" :> <<"ManageMessages">> @@
   "purge" :> <<"ManageMessages">> @@
   "pin" :> <<"ManageMessages">> @@
   "unpin" :> <<"ManageMessages">> @@
   "clearreactions" :> <<"ManageMessages">> @@
   "clearemoji" :> <<"ManageMessages">> @@
   "createthread" :> <<"CreatePublicThreads">> @@
   "archivethread" :> <<"ManageThreads">> @@
   "lockthread" :> <<"ManageThreads">> @@
   "unlockthread" :> <<"ManageThreads">> @@
   "addthreadmember" :> <<"ManageThreads">> @@
   "removethreadmember" :> <<"ManageThreads">> @@
   "auditlog" :> <<"ViewAuditLog">> @@
   "bans" :> <<"BanMembers">> @@
   "createinvite" :> <<"CreateInstantInvite">> @@
   "deleteinvite" :> <<"ManageGuild">> @@
   "crosspost" :> <<"ManageMessages">> @@
   "button" :> <<"ManageGuild">> @@
   "selectmenu" :> <<"ManageGuild">>)

ADMIN_ONLY_COMMANDS ==
  {"editserver", "editwelcome", "setwidget", "widgetsettings",
   "createtemplate", "synctemplate", "deletetemplate", "button", "selectmenu"}

BOT_OWNER_ONLY_COMMANDS ==
  {"createrole", "deleterole", "editrole", "setrolepositions", "prune",
   "editserver", "createautomod", "editautomod", "deleteautomod",
   "createtemplate", "synctemplate", "deletetemplate", "bulkprivacy",
   "organize", "setchannelpositions"}

ADMIN_REQUIRED_COMMANDS ==
  {"deletechannel", "deletecategory", "createchannel", "createvoice",
   "createforum", "createannouncement", "createstage", "createcategory",
   "editchannel", "setchannelposition", "movechannel", "setchannelprivate",
   "setcategoryprivate", "setchannelperms", "channelperms", "syncchannelperms",
   "createwebhook", "deletewebhook", "createemoji", "deleteemoji",
   "createsticker", "deletesticker", "createevent", "deleteevent", "editevent",
   "deleteinvite", "editwelcome", "setwidget", "button", "selectmenu"}

MOD_REQUIRED_COMMANDS ==
  {"kick", "ban", "unban", "timeout", "removetimeout", "untimeout",
   "editmember", "bulkdelete", "purge", "clearreactions", "clearemoji",
   "lockthread", "unlockthread", "archivethread", "auditlog", "audit", "bans",
   "getban"}

DISABLED_BY_DEFAULT_COMMANDS ==
  {"dm", "editdm", "deletedm", "readdms", "send", "edit", "delete",
   "webhooksend", "exportchat"}

COMMANDER_ROLE_NAMES ==
  {<<"c","o","m","m","a","n","d","e","r">>,
   <<"c","o","-","c","o","m","m","a","n","d","e","r">>,
   <<"e","x","e","c","u","t","i","v","e"," ","o","f","f","i","c","e","r">>,
   <<"x","o">>,
   <<"c","l","a","n"," ","l","e","a","d","e","r">>,
   <<"d","e","p","u","t","y"," ","c","o","m","m","a","n","d","e","r">>}

COMMANDER_ONLY_COMMANDS ==
  {"addrole", "removerole"}

(***************************************************************************)
(* checkPermission (prefix-handler.ts 344-479).                            *)
(***************************************************************************)
\* process.env.BOT_OWNER_ID when the variable is not set
Unset == "<unset>"

\* message.member when the author's guild membership is not resolved
NoMember == [absent |-> TRUE]

\* The module-level rule sets, gathered in one record.  checkPermission reads
\* them as constants; they are a parameter here so that the precedence test
\* of spec section 8 (one name placed in two sets) can be evaluated.
SourceRules ==
  [disabled      |-> DISABLED_BY_DEFAULT_COMMANDS,
   ownerOnly     |-> BOT_OWNER_ONLY_COMMANDS,
   adminRequired |-> ADMIN_REQUIRED_COMMANDS,
   modRequired   |-> MOD_REQUIRED_COMMANDS,
   commanderOnly |-> COMMANDER_ONLY_COMMANDS,
   permissions   |-> COMMAND_PERMISSIONS,
   adminOnly     |-> ADMIN_ONLY_COMMANDS]

Allow == [allowed |-> TRUE, reason |-> ""]
Deny(reason) == [allowed |-> FALSE, reason |-> reason]

REASON_NO_MEMBER == "Could not verify your server membership."
REASON_DISABLED  == "This command is disabled for security reasons."
REASON_OWNER     == "This command is restricted to the bot owner only."
REASON_ADMIN     ==
  "This command requires Administrator permission. Channel management, webhooks, server assets, and events require admin access."
REASON_MOD       == "This command requires Moderator permissions."
REASON_COMMANDER == "Role assignment is restricted to Commanders and Executive Officers only."
REASON_PERMS     == "You do not have the required Discord permissions for this command."
REASON_LEGACY    == "This command requires Administrator permission."

\* member.permissions.has(perm): discord.js answers true for every flag when
\* the member holds Administrator (PermissionsBitField.has, checkAdmin = true)
has(member, perm) ==
  perm \in member.permissions \/ "Administrator" \in member.permissions

\* const isOwner = botOwnerId && userId === botOwnerId   (mutant: fails open
\* when no owner is configured)
isOwner_FailOpen(botOwnerId, userId) ==
  botOwnerId \in {Unset, ""} \/ userId = botOwnerId

isOwner(botOwnerId, userId) ==
  botOwnerId \notin {Unset, ""} /\ userId = botOwnerId

\* a moderator check that asks for all four permissions
hasModPerms_All(member) ==
  /\ has(member, "KickMembers")
  /\ has(member, "BanMembers")
  /\ has(member, "ManageMessages")
  /\ has(member, "ModerateMembers")

hasModPerms(member) ==
  \/ has(member, "KickMembers")
  \/ has(member, "BanMembers")
  \/ has(member, "ManageMessages")
  \/ has(member, "ModerateMembers")

\* a capability check that is content with one listed permission
hasPerms_Some(member, requiredPerms) ==
  \E i \in 1..Len(requiredPerms) : has(member, requiredPerms[i])

\* requiredPerms.every(perm => member.permissions.has(perm))
hasPerms(member, requiredPerms) ==
  \A i \in 1..Len(requiredPerms) : has(member, requiredPerms[i])

hasCommanderRole(member) ==
  \E role \in member.roles : \E name \in COMMANDER_ROLE_NAMES :
     includes(toLowerCase(role), toLowerCase(name))

\* mutant: the Admin-required block placed above the Owner-only block
checkPermission_AdminFirst(rules, botOwnerId, message, command) ==
  LET member        == message.member
      owner         == isOwner(botOwnerId, message.authorId)
      isServerOwner == message.guildOwnerId = message.authorId
      requiredPerms == IF command \in DOMAIN rules.permissions
                       THEN rules.permissions[command] ELSE <<>>
  IN
  IF member = NoMember THEN Deny(REASON_NO_MEMBER)
  ELSE IF command \in rules.disabled THEN
    (IF ~owner THEN Deny(REASON_DISABLED) ELSE Allow)
  ELSE IF command \in rules.adminRequired THEN
    (IF owner THEN Allow
     ELSE IF ~has(member, "Administrator") THEN Deny(REASON_ADMIN) ELSE Allow)
  ELSE IF command \in rules.ownerOnly THEN
    (IF ~owner THEN Deny(REASON_OWNER) ELSE Allow)
  ELSE IF command \in rules.modRequired THEN
    (IF owner THEN Allow
     ELSE IF ~hasModPerms(member) THEN Deny(REASON_MOD) ELSE Allow)
  ELSE IF command \in rules.commanderOnly THEN
    (IF owner THEN Allow
     ELSE IF ~hasCommanderRole(member) /\ ~isServerOwner
          THEN Deny(REASON_COMMANDER) ELSE Allow)
  ELSE IF Len(requiredPerms) > 0 THEN
    (IF owner THEN Allow
     ELSE IF ~hasPerms(member, requiredPerms)
          THEN Deny(REASON_PERMS) ELSE Allow)
  ELSE IF command \in rules.adminOnly THEN
    (IF owner THEN Allow
     ELSE IF ~has(member, "Administrator") THEN Deny(REASON_LEGACY) ELSE Allow)
  ELSE Allow

checkPermission(rules, botOwnerId, message, command) ==
  LET member        == message.member
      owner         == isOwner(botOwnerId, message.authorId)
      isServerOwner == message.guildOwnerId = message.authorId
      requiredPerms == IF command \in DOMAIN rules.permissions
                       THEN rules.permissions[command] ELSE <<>>
  IN
  IF member = NoMember THEN Deny(REASON_NO_MEMBER)
  ELSE IF command \in rules.disabled THEN
    (IF ~owner THEN Deny(REASON_DISABLED) ELSE Allow)
  ELSE IF command \in rules.ownerOnly THEN
    (IF ~owner THEN Deny(REASON_OWNER) ELSE Allow)
  ELSE IF command \in rules.adminRequired THEN
    (IF owner THEN Allow
     ELSE IF ~has(member, "Administrator") THEN Deny(REASON_ADMIN) ELSE Allow)
  ELSE IF command \in rules.modRequired THEN
    (IF owner THEN Allow
     ELSE IF ~hasModPerms(member) THEN Deny(REASON_MOD) ELSE Allow)
  ELSE IF command \in rules.commanderOnly THEN
    (IF owner THEN Allow
     ELSE IF ~hasCommanderRole(member) /\ ~isServerOwner
          THEN Deny(REASON_COMMANDER) ELSE Allow)
  ELSE IF Len(requiredPerms) > 0 THEN
    (IF owner THEN Allow
     ELSE IF ~hasPerms(member, requiredPerms)
          THEN Deny(REASON_PERMS) ELSE Allow)
  ELSE IF command \in rules.adminOnly THEN
    (IF owner THEN Allow
     ELSE IF ~has(member, "Administrator") THEN Deny(REASON_LEGACY) ELSE Allow)
  ELSE Allow

(***************************************************************************)
(* Inputs of the permission evaluator.                                     *)
(***************************************************************************)
\* most permission flags one caller holds
MaxPerms == 2

Users == {"u1", "u2"}

PermFlags ==
  {"Administrator", "KickMembers", "BanMembers", "ManageMessages",
   "ModerateMembers", "ManageGuild", "ManageRoles", "ManageChannels"}

RoleNames ==
  {<<"M","e","m","b","e","r">>,
   <<"X","O">>,
   <<"S","a","x","o","p","h","o","n","e">>,
   <<"F","l","e","e","t"," ","C","o","m","m","a","n","d","e","r">>}

Members ==
  [permissions : {S \in SUBSET PermFlags : Cardinality(S) <= MaxPerms},
   roles       : {{}} \cup {{r} : r \in RoleNames}]

\* The source's rule sets with one synthetic name placed in two of them:
\* the configuration of the tier-precedence test (spec section 8, property 2);
\* and one synthetic name, in none of the sets, that lists two permissions
\* (the source lists two only for names of the Admin-required set).
TwoSetRules ==
  [SourceRules EXCEPT !.ownerOnly     = @ \cup {"twosets"},
                      !.adminRequired = @ \cup {"twosets"},
                      !.permissions   =
                        ("twoperms" :> <<"ManageMessages", "ManageRoles">>) @@ @]

\* the case labels of executeCommand that share one body (prefix-handler.ts
\* 488-3122): each set is one handler
CASE_GROUPS ==
  {{"serverinfo", "server"}, {"serverstats", "stats"}, {"up", "uptime"},
   {"wows", "player", "lookup"}, {"clan", "claninfo", "clanlookup"},
   {"ships", "topships"}, {"listchannels", "channels"}, {"listroles", "roles"},
   {"searchmembers", "findmember"}, {"removetimeout", "untimeout"},
   {"auditlog", "audit"}, {"bulkdelete", "purge"}, {"react", "addreaction"},
   {"unreact", "removereaction"}, {"listwebhooks", "webhooks"},
   {"lockvoice", "vlock"}, {"unlockvoice", "vunlock"}, {"voicestatus", "vstatus"},
   {"voicejoin", "join"}, {"voiceleave", "leave"}, {"say", "speak", "tts"},
   {"voices", "listvoices"}, {"voice", "currentvoice"}, {"setvoice", "changevoice"},
   {"previewvoice", "testvoice"}, {"ask", "ai", "chat"},
   {"image", "imagine", "generate", "img"}, {"play", "p", "music"}, {"skip", "s"},
   {"resume", "unpause"}, {"queue", "q"}, {"np", "nowplaying", "current"},
   {"volume", "vol"}, {"loop", "repeat"}, {"automodrules", "automod"},
   {"readimages", "ocr"}, {"bread", "breadsticks", "breadstick", "carbs"}}

\* the tokens that executeCommand dispatches to the handler of command
sameHandler(command) == {command} \cup UNION {g \in CASE_GROUPS : command \in g}

QueryCommands ==
  {"dm", "webhooksend", "prune", "editserver", "editwelcome", "deletechannel",
   "setchannelperms", "ban", "untimeout", "addrole", "pin", "widgetsettings",
   "serverinfo", "foo", "twosets", "twoperms", "automodrules", "purge", "audit"}

PermQueries ==
  [rules        : {SourceRules, TwoSetRules},
   botOwnerId   : {Unset, "", "u1"},
   authorId     : Users,
   guildOwnerId : Users,
   member       : {NoMember} \cup Members,
   command      : QueryCommands]

PermInit ==
  /\ query \in PermQueries
  /\ answer = NoAnswer
  /\ registry = NoAnswer
  /\ applied = 0
  /\ voiceLocks = {}
  /\ queues = <<>>
  /\ now = 0 /\ commandCooldowns = <<>> /\ cooldowns = <<>> /\ hist = <<>>
  /\ tasks = <<>>

CheckPermissionCall ==
  /\ answer = NoAnswer
  /\ answer' = checkPermission(query.rules, query.botOwnerId,
                               [member |-> query.member, authorId |-> query.authorId,
                                guildOwnerId |-> query.guildOwnerId],
                               query.command)
  /\ UNCHANGED <<query, regVars, clockVars, tasks>>

PermNext == CheckPermissionCall

PermSpec == PermInit /\ [][PermNext]_vars
(***************************************************************************)
(* Command registry and decorators (part_001 61-444).                      *)
(* A metadata object is shared by reference between pendingMetadata and    *)
(* the registry's commands map: registry.objects holds the objects by      *)
(* identity (the decorated function, or the object handed to register),    *)
(* registry.commands maps a name to an object identity, registry.aliases   *)
(* an alias to a name.                                                     *)
(***************************************************************************)
Undefined == "<undefined>"

Range(seq) == {seq[i] : i \in 1..Len(seq)}

EmptyRegistry == [objects |-> <<>>, commands |-> <<>>, aliases |-> <<>>]

DefaultMetadata ==
  [name |-> Undefined, usage |-> Undefined, handler |-> Undefined,
   aliases |-> <<>>, args |-> <<>>, permissions |-> <<>>, guards |-> <<>>,
   interceptors |-> <<>>, cooldown |-> 0, adminOnly |-> FALSE,
   modOnly |-> FALSE, schema |-> Undefined, category |-> "General"]

getOrCreateMetadata(reg, target) ==
  IF target \in DOMAIN reg.objects THEN reg
  ELSE [reg EXCEPT !.objects = (target :> DefaultMetadata) @@ @]

\* register(metadata), metadata being the object target
register(reg, target) ==
  LET metadata == reg.objects[target] IN
  [reg EXCEPT !.commands = (metadata.name :> target) @@ @,
              !.aliases  = [a \in Range(metadata.aliases) |-> metadata.name] @@ @]

\* a lookup that tries the aliases before the names
get_AliasFirst(reg, name) ==
  IF name \in DOMAIN reg.aliases /\ reg.aliases[name] \in DOMAIN reg.commands
  THEN reg.commands[reg.aliases[name]]
  ELSE IF name \in DOMAIN reg.commands THEN reg.commands[name]
  ELSE Undefined

\* get(name): the identity of the metadata object, or Undefined
get(reg, name) ==
  IF name \in DOMAIN reg.commands THEN reg.commands[name]
  ELSE IF name \in DOMAIN reg.aliases /\ reg.aliases[name] # ""
       THEN (IF reg.aliases[name] \in DOMAIN reg.commands
             THEN reg.commands[reg.aliases[name]] ELSE Undefined)
  ELSE Undefined

\* options.field || default, options.field ?? default
Opt(options, field, default) ==
  IF field \in DOMAIN options THEN options[field] ELSE default

\* mutant: @Command registers a copy of the metadata as it is at that moment
Command_Snapshot(reg, target, options) ==
  LET r == getOrCreateMetadata(reg, target)
      named == [r.objects[target] EXCEPT
                  !.name = options.name,
                  !.usage = Opt(options, "usage", <<"!", options.name>>),
                  !.category = Opt(options, "category", "General"),
                  !.handler = target]
  IN register([r EXCEPT !.objects = ("snapshot" :> named) @@ (target :> named) @@ @],
              "snapshot")

\* the default usage !${name} is the pair <<"!", name>>
Command(reg, target, options) ==
  LET r == getOrCreateMetadata(reg, target) IN
  register([r EXCEPT !.objects[target] =
                [@ EXCEPT !.name = options.name,
                          !.usage = Opt(options, "usage", <<"!", options.name>>),
                          !.category = Opt(options, "category", "General"),
                          !.handler = target]],
           target)

ArgDef(options) ==
  [name |-> options.name, type |-> Opt(options, "type", "string"),
   required |-> Opt(options, "required", TRUE), rest |-> Opt(options, "rest", FALSE)]

Arg(reg, target, options) ==
  LET r == getOrCreateMetadata(reg, target) IN
  [r EXCEPT !.objects[target].args = <<ArgDef(options)>> \o @]

\* the list is reversed and its elements put in front one by one
Args(reg, target, args) ==
  LET r == getOrCreateMetadata(reg, target) IN
  [r EXCEPT !.objects[target].args = [i \in 1..Len(args) |-> ArgDef(args[i])] \o @]

Alias(reg, target, aliases) ==
  LET r == getOrCreateMetadata(reg, target) IN
  [r EXCEPT !.objects[target].aliases = @ \o aliases]

RequirePermission(reg, target, permissions) ==
  LET r == getOrCreateMetadata(reg, target) IN
  [r EXCEPT !.objects[target].permissions = @ \o permissions]

AdminOnly(reg, target) ==
  LET r == getOrCreateMetadata(reg, target) IN
  [r EXCEPT !.objects[target].adminOnly = TRUE]

ModOnly(reg, target) ==
  LET r == getOrCreateMetadata(reg, target) IN
  [r EXCEPT !.objects[target].modOnly = TRUE]

UseGuard(reg, target, guard) ==
  LET r == getOrCreateMetadata(reg, target) IN
  [r EXCEPT !.objects[target].guards = Append(@, guard)]

\* an interceptor put in front of those already declared
UseInterceptor_Prepend(reg, target, interceptor) ==
  LET r == getOrCreateMetadata(reg, target) IN
  [r EXCEPT !.objects[target].interceptors = <<interceptor>> \o @]

UseInterceptor(reg, target, interceptor) ==
  LET r == getOrCreateMetadata(reg, target) IN
  [r EXCEPT !.objects[target].interceptors = Append(@, interceptor)]

Cooldown(reg, target, seconds) ==
  LET r == getOrCreateMetadata(reg, target) IN
  [r EXCEPT !.objects[target].cooldown = seconds]

ValidateWith(reg, target, schema) ==
  LET r == getOrCreateMetadata(reg, target) IN
  [r EXCEPT !.objects[target].schema = schema]

Category(reg, target, name) ==
  LET r == getOrCreateMetadata(reg, target) IN
  [r EXCEPT !.objects[target].category = name]

(***************************************************************************)
(* Registration as a state machine: decorators applied to functions in any *)
(* order, and register called with whole metadata objects.                 *)
(***************************************************************************)
\* most decorator applications and register calls in one run
MaxDecorators == 4

Functions == {"f1", "f2"}
SpecObjects == {"o1"}
RegNames == {"ban", "b", "kick"}

RegInit ==
  /\ registry = EmptyRegistry
  /\ applied = 0
  /\ voiceLocks = {}
  /\ queues = <<>>
  /\ query = NoAnswer
  /\ answer = NoAnswer
  /\ now = 0 /\ commandCooldowns = <<>> /\ cooldowns = <<>> /\ hist = <<>>
  /\ tasks = <<>>

Applies(reg) ==
  /\ applied < MaxDecorators
  /\ applied' = applied + 1
  /\ registry' = reg
  /\ UNCHANGED <<callVars, clockVars, tasks, voiceLocks, queues>>

\* a step that calls register with the metadata object target
Registers(reg, target) ==
  /\ applied < MaxDecorators
  /\ applied' = applied + 1
  /\ registry' = reg
  /\ query' = [registered |-> target, at |-> applied']
  /\ UNCHANGED <<answer, clockVars, tasks, voiceLocks, queues>>

ApplyCommand ==
  \E f \in Functions, n \in RegNames :
    Registers(Command(registry, f, [name |-> n]), f)

ApplyAlias ==
  \E f \in Functions, a \in RegNames : Applies(Alias(registry, f, <<a>>))

ApplyModOnly == \E f \in Functions : Applies(ModOnly(registry, f))

ApplyAdminOnly == \E f \in Functions : Applies(AdminOnly(registry, f))

ApplyCooldown == \E f \in Functions : Applies(Cooldown(registry, f, 5))

\* prefixCommandRegistry.register(spec) with an object built by the caller
RegisterCall ==
  \E o \in SpecObjects, n \in RegNames, as \in {<<>>} \cup {<<a>> : a \in RegNames} :
    Registers(register([registry EXCEPT !.objects =
                          (o :> [DefaultMetadata EXCEPT !.name = n, !.usage = n,
                                                        !.handler = o, !.aliases = as]) @@ @],
                       o),
              o)

RegNext ==
  \/ ApplyCommand
  \/ ApplyAlias
  \/ ApplyModOnly
  \/ ApplyAdminOnly
  \/ ApplyCooldown
  \/ RegisterCall

RegSpec == RegInit /\ [][RegNext]_vars

(***************************************************************************)
(* Cooldown stores.                                                        *)
(* SecurityUtils.checkCooldown (SecurityUtils.ts 205-236) keeps the time   *)
(* of the last allowed use; checkCooldown of the decorator module          *)
(* (part_001 514-534) keeps the expiry.  Both read Date.now() themselves:  *)
(* the reading is the parameter t.  Each returns its result together with  *)
(* the store it leaves behind.                                             *)
(***************************************************************************)
COMMAND_COOLDOWNS ==
  "prune" :> 60000 @@ "bulkdelete" :> 10000 @@ "createinvite" :> 10000 @@
  "exportchat" :> 30000 @@ "ban" :> 5000 @@ "kick" :> 5000 @@
  "timeout" :> 5000 @@ "createchannel" :> 5000 @@ "deletechannel" :> 5000 @@
  "createrole" :> 5000 @@ "deleterole" :> 5000 @@ "default" :> 3000 @@
  "ping" :> 1000 @@ "help" :> 2000

\* the store is swept when a command's map holds more than this many users
SWEEP_SIZE == 1000
\* ... of the entries older than this many milliseconds
SWEEP_AGE == 60000

\* map.get(k) || d
getOr(map, k, d) == IF k \in DOMAIN map /\ map[k] # 0 THEN map[k] ELSE d

\* Math.ceil(ms / 1000)
CeilSeconds(ms) == -((-ms) \div 1000)

\* mutant: the comparison admits the boundary
SecurityUtils_checkCooldown_Inclusive(store, userId, command, cooldownMs, t) ==
  LET s1 == IF command \in DOMAIN store THEN store ELSE (command :> <<>>) @@ store
      elapsed == t - getOr(s1[command], userId, 0)
  IN IF elapsed <= cooldownMs
     THEN [allowed |-> FALSE, remainingMs |-> cooldownMs - elapsed, store |-> s1]
     ELSE [allowed |-> TRUE,
           store |-> [s1 EXCEPT ![command] = (userId :> t) @@ @]]

\* mutant: a denied attempt starts the window again
SecurityUtils_checkCooldown_RearmOnDeny(store, userId, command, cooldownMs, t) ==
  LET s1 == IF command \in DOMAIN store THEN store ELSE (command :> <<>>) @@ store
      elapsed == t - getOr(s1[command], userId, 0)
      armed == [s1 EXCEPT ![command] = (userId :> t) @@ @]
  IN IF elapsed < cooldownMs
     THEN [allowed |-> FALSE, remainingMs |-> cooldownMs - elapsed, store |-> armed]
     ELSE [allowed |-> TRUE, store |-> armed]

\* mutant: the sweep forgets entries after half the horizon
SecurityUtils_checkCooldown_ShortHorizon(store, userId, command, cooldownMs, t) ==
  LET s1 == IF command \in DOMAIN store THEN store ELSE (command :> <<>>) @@ store
      elapsed == t - getOr(s1[command], userId, 0)
      armed == (userId :> t) @@ s1[command]
      cutoff == t - SWEEP_AGE \div 2
      swept == IF Cardinality(DOMAIN armed) > SWEEP_SIZE
               THEN [uid \in {u \in DOMAIN armed : ~(armed[u] < cutoff)} |-> armed[uid]]
               ELSE armed
  IN IF elapsed < cooldownMs
     THEN [allowed |-> FALSE, remainingMs |-> cooldownMs - elapsed, store |-> s1]
     ELSE [allowed |-> TRUE, store |-> [s1 EXCEPT ![command] = swept]]

SecurityUtils_checkCooldown(store, userId, command, cooldownMs, t) ==
  LET s1 == IF command \in DOMAIN store THEN store ELSE (command :> <<>>) @@ store
      commandCooldown == s1[command]
      lastUsed == getOr(commandCooldown, userId, 0)
      elapsed == t - lastUsed
      armed == (userId :> t) @@ commandCooldown
      cutoff == t - SWEEP_AGE
      swept == IF Cardinality(DOMAIN armed) > SWEEP_SIZE
               THEN [uid \in {u \in DOMAIN armed : ~(armed[u] < cutoff)} |-> armed[uid]]
               ELSE armed
  IN IF elapsed < cooldownMs
     THEN [allowed |-> FALSE, remainingMs |-> cooldownMs - elapsed, store |-> s1]
     ELSE [allowed |-> TRUE, store |-> [s1 EXCEPT ![command] = swept]]

\* a check that reads the entry but never arms it
checkCooldown_NoArm(store, userId, commandName, cooldownSeconds, t) ==
  IF cooldownSeconds <= 0 THEN [remaining |-> 0, store |-> store]
  ELSE
    LET expiry == IF commandName \in DOMAIN store
                  THEN getOr(store[commandName], userId, 0) ELSE 0
    IN IF expiry # 0 /\ t < expiry
       THEN [remaining |-> CeilSeconds(expiry - t), store |-> store]
       ELSE [remaining |-> 0, store |-> store]

\* the result is the number of whole seconds left, 0 when the use is allowed
checkCooldown(store, userId, commandName, cooldownSeconds, t) ==
  IF cooldownSeconds <= 0 THEN [remaining |-> 0, store |-> store]
  ELSE
    LET key == commandName
        s1 == IF key \in DOMAIN store THEN store ELSE (key :> <<>>) @@ store
        userCooldowns == s1[key]
        expiry == getOr(userCooldowns, userId, 0)
    IN IF expiry # 0 /\ t < expiry
       THEN [remaining |-> CeilSeconds(expiry - t), store |-> s1]
       ELSE [remaining |-> 0,
             store |-> [s1 EXCEPT ![key] = (userId :> t + cooldownSeconds * 1000) @@ @]]

(***************************************************************************)
(* The two cooldown checks as a state machine: calls by any user for any   *)
(* command at any clock reading, with the clock advancing in between.      *)
(***************************************************************************)
\* the clock reading at start; real readings are near 1.7e12, and every
\* reading above the longest cooldown behaves alike
StartNow == 1000000
\* the clock advances by this many milliseconds at a time
TickMs == 2500
\* ... at most this many times
MaxTicks == 2

\* handleMessage: COMMAND_COOLDOWNS[command] || COMMAND_COOLDOWNS['default']
cooldownFor(command) == getOr(COMMAND_COOLDOWNS, command, COMMAND_COOLDOWNS["default"])

SecurityCheckCommands == {"ban", "foo"}
\* metadata.cooldown of the commands declared with @Cooldown
PrefixCooldownSeconds == "8ball" :> 5 @@ "bread" :> 3

NoDenial == [none |-> TRUE]
NoHistory == [armed |-> <<>>, denied |-> NoDenial]

CooldownInit ==
  /\ now = StartNow
  /\ commandCooldowns = <<>>
  /\ cooldowns = <<>>
  /\ hist = NoHistory
  /\ query \in {[fn |-> f, made |-> FALSE] : f \in {"SecurityUtils", "prefix"}}
  /\ answer = NoAnswer
  /\ registry = NoAnswer
  /\ applied = 0
  /\ voiceLocks = {}
  /\ queues = <<>>
  /\ tasks = <<>>

\* the clock advances; the result of the last check has been consumed
Tick ==
  /\ now < StartNow + MaxTicks * TickMs
  /\ now' = now + TickMs
  /\ query' = [fn |-> query.fn, made |-> FALSE]
  /\ answer' = NoAnswer
  /\ UNCHANGED <<regVars, commandCooldowns, cooldowns, hist, tasks>>

\* the history after a check of key at now: the time it last allowed, and
\* the last denial (until the key is allowed again)
Remember(key, allowed, ms, remainingMs) ==
  IF allowed
  THEN [armed |-> (key :> now) @@ hist.armed,
        denied |-> IF hist.denied # NoDenial /\ hist.denied.key = key
                   THEN NoDenial ELSE hist.denied]
  ELSE [hist EXCEPT !.denied = [key |-> key, until |-> now + remainingMs]]

SecurityCheckCall ==
  /\ query.fn = "SecurityUtils"
  /\ \E userId \in Users, command \in SecurityCheckCommands :
       LET key == <<command, userId>>
           cooldownMs == cooldownFor(command)
           r == SecurityUtils_checkCooldown(commandCooldowns, userId, command,
                                            cooldownMs, now)
       IN /\ query' = [fn |-> query.fn, made |-> TRUE, key |-> key,
                       ms |-> cooldownMs, at |-> now, before |-> hist]
          /\ answer' = [allowed |-> r.allowed,
                        remainingMs |-> IF r.allowed THEN 0 ELSE r.remainingMs,
                        seconds |-> 0]
          /\ commandCooldowns' = r.store
          /\ hist' = Remember(key, r.allowed, cooldownMs,
                              IF r.allowed THEN 0 ELSE r.remainingMs)
          /\ UNCHANGED <<regVars, now, cooldowns, tasks>>

PrefixCheckCall ==
  /\ query.fn = "prefix"
  /\ \E userId \in Users, command \in DOMAIN PrefixCooldownSeconds :
       LET key == <<command, userId>>
           seconds == PrefixCooldownSeconds[command]
           r == checkCooldown(cooldowns, userId, command, seconds, now)
       IN /\ query' = [fn |-> query.fn, made |-> TRUE, key |-> key,
                       ms |-> seconds * 1000, at |-> now, before |-> hist]
          /\ answer' = [allowed |-> r.remaining = 0, remainingMs |-> 0,
                        seconds |-> r.remaining]
          /\ cooldowns' = r.store
          /\ hist' = Remember(key, r.remaining = 0, seconds * 1000, r.remaining * 1000)
          /\ UNCHANGED <<regVars, now, commandCooldowns, tasks>>

CooldownNext ==
  \/ Tick
  \/ SecurityCheckCall
  \/ PrefixCheckCall

CooldownSpec == CooldownInit /\ [][CooldownNext]_vars

(***************************************************************************)
(* The same two checks called with any cooldown, disabled ones (zero or    *)
(* negative) included.  The call remembers both stores as it found them.   *)
(***************************************************************************)
\* cooldown values that disable the cooldown
DisabledMs == {0, -1000}
DisabledSeconds == {0, -1}

SecurityCheckAny ==
  /\ query.fn = "SecurityUtils"
  /\ \E userId \in Users, command \in SecurityCheckCommands :
     \E cooldownMs \in {cooldownFor(command)} \cup DisabledMs :
       LET r == SecurityUtils_checkCooldown(commandCooldowns, userId, command,
                                            cooldownMs, now)
       IN /\ query' = [fn |-> query.fn, made |-> TRUE, key |-> <<command, userId>>,
                       ms |-> cooldownMs, at |-> now,
                       before |-> [commandCooldowns |-> commandCooldowns,
                                   cooldowns |-> cooldowns]]
          /\ answer' = [allowed |-> r.allowed]
          /\ commandCooldowns' = r.store
          /\ UNCHANGED <<regVars, now, cooldowns, hist, tasks>>

PrefixCheckAny ==
  /\ query.fn = "prefix"
  /\ \E userId \in Users, command \in DOMAIN PrefixCooldownSeconds :
     \E seconds \in {PrefixCooldownSeconds[command]} \cup DisabledSeconds :
       LET r == checkCooldown(cooldowns, userId, command, seconds, now)
       IN /\ query' = [fn |-> query.fn, made |-> TRUE, key |-> <<command, userId>>,
                       ms |-> seconds * 1000, at |-> now,
                       before |-> [commandCooldowns |-> commandCooldowns,
                                   cooldowns |-> cooldowns]]
          /\ answer' = [allowed |-> r.remaining = 0]
          /\ cooldowns' = r.store
          /\ UNCHANGED <<regVars, now, commandCooldowns, hist, tasks>>

AnyCooldownNext ==
  \/ Tick
  \/ SecurityCheckAny
  \/ PrefixCheckAny

AnyCooldownSpec == CooldownInit /\ [][AnyCooldownNext]_vars

(***************************************************************************)
(* SecurityUtils.checkCooldown on a crowded map: the map of one command    *)
(* holds about SWEEP_SIZE users when the checks start, as it does after    *)
(* that many users were allowed once.  User ids are snowflakes, written    *)
(* here as the numbers they spell.                                         *)
(***************************************************************************)
\* the crowded map starts with SWEEP_SIZE - 1 users, or up to this many more
MaxOver == 2
\* checks made on the crowded store
MaxSweepCalls == 2

\* how long before the start the users of the crowded map were last allowed
SweepAges == <<0, 1, SWEEP_AGE - TickMs, SWEEP_AGE - 1, SWEEP_AGE, SWEEP_AGE + 1,
               2 * SWEEP_AGE>>

CrowdedMap(size) ==
  [uid \in 1..size |-> StartNow - SweepAges[(uid % Len(SweepAges)) + 1]]

\* a user of the crowded map inside the window of !prune, one whose entry is
\* exactly SWEEP_AGE old, and one the map has never seen
SweepCallers == {3, 4, SWEEP_SIZE + MaxOver + 1}
SweepCommands == {"prune", "ban"}

SweepInit ==
  /\ now = StartNow
  /\ \E over \in 0..MaxOver :
       commandCooldowns = ("prune" :> CrowdedMap(SWEEP_SIZE - 1 + over))
  /\ cooldowns = <<>>
  /\ hist = 0
  /\ query = [made |-> FALSE]
  /\ answer = NoAnswer
  /\ registry = NoAnswer
  /\ applied = 0
  /\ voiceLocks = {}
  /\ queues = <<>>
  /\ tasks = <<>>

SweepTick ==
  /\ now < StartNow + MaxTicks * TickMs
  /\ now' = now + TickMs
  /\ UNCHANGED <<regVars, commandCooldowns, cooldowns, hist, query, answer, tasks>>

\* SecurityUtils.checkCooldown(userId, command, COMMAND_COOLDOWNS[command])
SweepCheckCall ==
  /\ hist < MaxSweepCalls
  /\ hist' = hist + 1
  /\ \E userId \in SweepCallers, command \in SweepCommands :
       LET r == SecurityUtils_checkCooldown(commandCooldowns, userId, command,
                                            cooldownFor(command), now)
       IN /\ query' = [made |-> TRUE, user |-> userId, command |-> command,
                       ms |-> cooldownFor(command), at |-> now,
                       before |-> commandCooldowns]
          /\ answer' = [allowed |-> r.allowed]
          /\ commandCooldowns' = r.store
  /\ UNCHANGED <<regVars, now, cooldowns, tasks>>

SweepNext ==
  \/ SweepTick
  \/ SweepCheckCall

SweepSpec == SweepInit /\ [][SweepNext]_vars

(***************************************************************************)
(* The commands declared with decorators (decorated-commands.ts), each     *)
(* with its decorators in the order they are applied: bottom-up, @Command  *)
(* first.  Loading the class applies them to the empty registry.           *)
(***************************************************************************)
D(d, arg) == [d |-> d, arg |-> arg]

NoArg == [none |-> TRUE]

DecoratedCommands ==
  << [method |-> "ping", decorators |->
        << D("Command", [name |-> "ping"]),
           D("UseInterceptor", "logging"),
           D("Category", "Info") >>],
     [method |-> "ban", decorators |->
        << D("Command", [name |-> "ban", usage |-> "!ban @user [reason]"]),
           D("UseInterceptor", "logging"),
           D("UseInterceptor", "errorHandler"),
           D("Args", << [name |-> "user", type |-> "user", required |-> TRUE],
                        [name |-> "reason", type |-> "string", rest |-> TRUE] >>),
           D("Alias", <<"b">>),
           D("ModOnly", NoArg),
           D("Category", "Moderation") >>],
     [method |-> "kick", decorators |->
        << D("Command", [name |-> "kick", usage |-> "!kick @user [reason]"]),
           D("UseInterceptor", "logging"),
           D("Args", << [name |-> "user", type |-> "user", required |-> TRUE],
                        [name |-> "reason", type |-> "string", rest |-> TRUE] >>),
           D("Alias", <<"k">>),
           D("ModOnly", NoArg),
           D("Category", "Moderation") >>],
     [method |-> "createRole", decorators |->
        << D("Command", [name |-> "createrole", usage |-> "!createrole <name> [color]"]),
           D("UseInterceptor", "logging"),
           D("Args", << [name |-> "name", type |-> "string", required |-> TRUE],
                        [name |-> "color", type |-> "string", required |-> FALSE] >>),
           D("AdminOnly", NoArg),
           D("Category", "Roles") >>],
     [method |-> "exportChat", decorators |->
        << D("Command", [name |-> "exportchat"]),
           D("UseInterceptor", "logging"),
           D("UseInterceptor", "reactLoading"),
           D("Cooldown", 60),
           D("Category", "Utility") >>],
     [method |-> "createCategory", decorators |->
        << D("Command", [name |-> "createcategory",
                         usage |-> "!createcategory <name> [description]"]),
           D("UseInterceptor", "errorHandler"),
           D("Args", << [name |-> "name", type |-> "string", required |-> TRUE],
                        [name |-> "description", type |-> "string", rest |-> TRUE] >>),
           D("ValidateWith", "createcategory"),
           D("AdminOnly", NoArg),
           D("Category", "Admin") >>],
     [method |-> "eightBall", decorators |->
        << D("Command", [name |-> "8ball", usage |-> "!8ball <question>"]),
           D("UseInterceptor", "logging"),
           D("Cooldown", 5),
           D("UseGuard", "guildOnly"),
           D("Category", "Fun") >>] >>

Decorate(reg, target, dec) ==
  CASE dec.d = "Command"           -> Command(reg, target, dec.arg)
    [] dec.d = "Arg"               -> Arg(reg, target, dec.arg)
    [] dec.d = "Args"              -> Args(reg, target, dec.arg)
    [] dec.d = "Alias"             -> Alias(reg, target, dec.arg)
    [] dec.d = "RequirePermission" -> RequirePermission(reg, target, dec.arg)
    [] dec.d = "AdminOnly"         -> AdminOnly(reg, target)
    [] dec.d = "ModOnly"           -> ModOnly(reg, target)
    [] dec.d = "UseGuard"          -> UseGuard(reg, target, dec.arg)
    [] dec.d = "UseInterceptor"    -> UseInterceptor(reg, target, dec.arg)
    [] dec.d = "Cooldown"          -> Cooldown(reg, target, dec.arg)
    [] dec.d = "ValidateWith"      -> ValidateWith(reg, target, dec.arg)
    [] dec.d = "Category"          -> Category(reg, target, dec.arg)

RECURSIVE DecorateAll(_, _, _, _)
DecorateAll(reg, target, decorators, k) ==
  IF k > Len(decorators) THEN reg
  ELSE \* each decorator works on the registry the one before it left
       CHOOSE loaded \in {DecorateAll(decorated, target, decorators, k + 1) :
                            decorated \in {Decorate(reg, target, decorators[k])}} : TRUE

RECURSIVE LoadClass(_, _, _)
LoadClass(reg, declarations, k) ==
  IF k > Len(declarations) THEN reg
  ELSE CHOOSE loaded \in {LoadClass(declared, declarations, k + 1) :
                            declared \in {DecorateAll(reg, declarations[k].method,
                                                      declarations[k].decorators, 1)}} : TRUE

\* the registry once decorated-commands.ts has been loaded
LoadedRegistry == LoadClass(EmptyRegistry, DecoratedCommands, 1)

(***************************************************************************)
(* Strings as sequences of one-character strings: the String.prototype     *)
(* methods and regular expressions the dispatcher applies to message text. *)
(* A missing array element (undefined) reads as the empty string: the      *)
(* callers only test it for falsiness or hand it to these functions.       *)
(***************************************************************************)
WhiteSpace == {" ", "\t", "\n", "\r", "\f"}
LineTerminators == {"\n", "\r"}
Digits == {"0", "1", "2", "3", "4", "5", "6", "7", "8", "9"}
DigitValue ==
  "0" :> 0 @@ "1" :> 1 @@ "2" :> 2 @@ "3" :> 3 @@ "4" :> 4 @@
  "5" :> 5 @@ "6" :> 6 @@ "7" :> 7 @@ "8" :> 8 @@ "9" :> 9
Letters == DOMAIN UpperToLower \cup {UpperToLower[c] : c \in DOMAIN UpperToLower}
\* [\x00-\x1F\x7F]: the white-space controls and a bell character
ControlChars == {"\t", "\n", "\r", "\f", "<BEL>"}

Max(S) == CHOOSE x \in S : \A y \in S : y <= x
Min(S) == CHOOSE x \in S : \A y \in S : x <= y

argAt(arr, i) == IF i <= Len(arr) THEN arr[i] ELSE <<>>

startsWith(s, p) == Len(s) >= Len(p) /\ SubSeq(s, 1, Len(p)) = p

\* s.slice(k) and arr.slice(k)
slice(s, k) == SubSeq(s, k + 1, Len(s))

\* s.substring(0, k)
substring(s, k) == SubSeq(s, 1, IF k < Len(s) THEN k ELSE Len(s))

\* the index of the last element of the longest run of members of class
\* (or of non-members, when negated) starting at i; i - 1 when there is none
runEnd(s, i, class, negated) ==
  Max({e \in (i - 1)..Len(s) : \A k \in i..e : (s[k] \in class) # negated})

trim(s) ==
  LET first == runEnd(s, 1, WhiteSpace, FALSE) + 1
      last  == Min({e \in 0..Len(s) : \A k \in (e + 1)..Len(s) : s[k] \in WhiteSpace})
  IN IF first > Len(s) THEN <<>> ELSE SubSeq(s, first, last)

\* s.split(/\s+/)
RECURSIVE splitFrom(_, _, _)
splitFrom(s, i, cur) ==
  IF i > Len(s) THEN <<cur>>
  ELSE IF s[i] \in WhiteSpace
       THEN <<cur>> \o splitFrom(s, runEnd(s, i, WhiteSpace, FALSE) + 1, <<>>)
       ELSE splitFrom(s, i + 1, Append(cur, s[i]))

split(s) == splitFrom(s, 1, <<>>)

\* arr.join(' ')
RECURSIVE join(_)
join(arr) ==
  IF arr = <<>> THEN <<>>
  ELSE IF Len(arr) = 1 THEN arr[1]
  ELSE arr[1] \o <<" ">> \o join(Tail(arr))

\* s.replace(/[...]/g, '') for a character class
removeChars(s, class) == SelectSeq(s, LAMBDA c : c \notin class)

\* parseInt(s) without a radix: leading white space, a sign, then the
\* longest run of digits, hexadecimal after a 0x or 0X prefix and decimal
\* otherwise; what follows the run is ignored
HexDigitValue ==
  DigitValue @@ [c \in {"a", "A"} |-> 10] @@ [c \in {"b", "B"} |-> 11]
    @@ [c \in {"c", "C"} |-> 12] @@ [c \in {"d", "D"} |-> 13]
    @@ [c \in {"e", "E"} |-> 14] @@ [c \in {"f", "F"} |-> 15]

RECURSIVE digitsValue(_, _, _)
digitsValue(ds, radix, acc) ==
  IF ds = <<>> THEN acc
  ELSE digitsValue(Tail(ds), radix, acc * radix + HexDigitValue[Head(ds)])

parseInt(s) ==
  LET t      == SubSeq(s, runEnd(s, 1, WhiteSpace, FALSE) + 1, Len(s))
      signed == t # <<>> /\ t[1] \in {"+", "-"}
      sign   == IF signed THEN 2 ELSE 1
      hex    == Len(t) > sign /\ t[sign] = "0" /\ t[sign + 1] \in {"x", "X"}
      radix  == IF hex THEN 16 ELSE 10
      from   == IF hex THEN sign + 2 ELSE sign
      to     == runEnd(t, from, IF hex THEN DOMAIN HexDigitValue ELSE Digits, FALSE)
  IN IF to < from THEN [nan |-> TRUE, value |-> 0]
     ELSE [nan |-> FALSE,
           value |-> IF signed /\ t[1] = "-"
                     THEN -digitsValue(SubSeq(t, from, to), radix, 0)
                     ELSE digitsValue(SubSeq(t, from, to), radix, 0)]

\* parseInt(s) || d
parseIntOr(s, d) ==
  LET n == parseInt(s) IN IF n.nan \/ n.value = 0 THEN d ELSE n.value

\* SNOWFLAKE_REGEX = /^\d{17,20}$/
isValidSnowflake(id) ==
  /\ id # <<>>
  /\ Len(id) >= 17 /\ Len(id) <= 20
  /\ \A k \in 1..Len(id) : id[k] \in Digits

\* the result is the empty string where the source returns null
sanitizeSnowflake(id) ==
  IF id = <<>> THEN <<>>
  ELSE LET cleaned == trim(removeChars(id, {"<", "@", "#", "&", "!", ">"}))
       IN IF isValidSnowflake(cleaned) THEN cleaned ELSE <<>>

sanitizeCommandArgs(args) ==
  SelectSeq([i \in 1..Len(args) |-> trim(removeChars(args[i], ControlChars))],
            LAMBDA arg : Len(arg) > 0)

(***************************************************************************)
(* SecurityUtils.sanitizeErrorMessage (SecurityUtils.ts 153-177): five     *)
(* global replacements, a length limit and a default.                      *)
(***************************************************************************)
PathMark == <<"[", "p", "a", "t", "h", "]">>
RedactedMark == <<"[", "r", "e", "d", "a", "c", "t", "e", "d", "]">>
TokenMark == <<"t", "o", "k", "e", "n", "=">> \o RedactedMark
Ellipsis == <<".", ".", ".">>
\* [A-Za-z0-9_-]{50,}
LONG_RUN == 50
\* message.length > 200
MAX_ERROR_LENGTH == 200

WordChars == Letters \cup Digits \cup {"_", "-"}

\* The index of the last character of the match of a pattern that starts at
\* i, or 0 when the pattern does not match there.
MatchEnd(pattern, s, i) ==
  CASE pattern = "drive" ->      \* [A-Za-z]:\\[^:]+
         IF /\ i + 3 <= Len(s)
            /\ s[i] \in Letters /\ s[i + 1] = ":" /\ s[i + 2] = "\\"
            /\ s[i + 3] # ":"
         THEN runEnd(s, i + 3, {":"}, TRUE) ELSE 0
    [] pattern = "path" ->       \* \/[^\s:]+\/[^\s:]+
         IF s[i] # "/" THEN 0
         ELSE LET e == runEnd(s, i + 1, WhiteSpace \cup {":"}, TRUE)
              IN IF \E j \in (i + 2)..(e - 1) : s[j] = "/" THEN e ELSE 0
    [] pattern = "long" ->       \* [A-Za-z0-9_-]{50,}
         LET e == runEnd(s, i, WordChars, FALSE)
         IN IF e - i + 1 >= LONG_RUN THEN e ELSE 0
    [] pattern = "token" ->      \* token[=:]\s*\S+   (case-insensitive)
         IF /\ i + 5 <= Len(s)
            /\ toLowerCase(SubSeq(s, i, i + 4)) = <<"t", "o", "k", "e", "n">>
            /\ s[i + 5] \in {"=", ":"}
         THEN LET w == runEnd(s, i + 6, WhiteSpace, FALSE)
                  e == runEnd(s, w + 1, WhiteSpace, TRUE)
              IN IF e > w THEN e ELSE 0
         ELSE 0
    [] pattern = "mention" ->    \* <@!?\d+>
         LET from == IF i + 2 <= Len(s) /\ s[i + 2] = "!" THEN i + 3 ELSE i + 2
             e    == runEnd(s, from, Digits, FALSE)
         IN IF /\ i + 1 <= Len(s) /\ s[i] = "<" /\ s[i + 1] = "@"
               /\ e >= from /\ e + 1 <= Len(s) /\ s[e + 1] = ">"
            THEN e + 1 ELSE 0
    [] pattern = "stack" ->      \* \s+at\s+.+
         IF s[i] \notin WhiteSpace THEN 0
         ELSE LET w  == runEnd(s, i, WhiteSpace, FALSE)
                  w2 == runEnd(s, w + 3, WhiteSpace, FALSE)
                  \* where .+ may start: after one or more of the white space
                  starts == {k \in (w + 4)..(w2 + 1) :
                               k <= Len(s) /\ s[k] \notin LineTerminators}
              IN IF /\ w + 2 <= Len(s)
                    /\ s[w + 1] = "a" /\ s[w + 2] = "t"
                    /\ w2 >= w + 3
                    /\ starts # {}
                 THEN runEnd(s, Max(starts), LineTerminators, TRUE)
                 ELSE 0

Replacement(pattern) ==
  CASE pattern = "drive" -> PathMark
    [] pattern = "path"  -> PathMark
    [] pattern = "long"  -> RedactedMark
    [] pattern = "token" -> TokenMark
    [] pattern = "stack" -> <<>>
    [] pattern = "mention" -> <<>>

\* s.replace(/pattern/g, replacement), scanning from i
RECURSIVE replaceFrom(_, _, _)
replaceFrom(pattern, s, i) ==
  LET starts == {k \in i..Len(s) : MatchEnd(pattern, s, k) # 0}
  IN IF starts = {} THEN SubSeq(s, i, Len(s))
     ELSE LET k == Min(starts)
          IN SubSeq(s, i, k - 1) \o Replacement(pattern)
               \o replaceFrom(pattern, s, MatchEnd(pattern, s, k) + 1)

replaceAll(pattern, s) == replaceFrom(pattern, s, 1)

DEFAULT_ERROR ==
  <<"A","n"," ","e","r","r","o","r"," ","o","c","c","u","r","r","e","d"," ",
    "w","h","i","l","e"," ","p","r","o","c","e","s","s","i","n","g"," ",
    "y","o","u","r"," ","r","e","q","u","e","s","t",".">>
NOT_AN_ERROR ==
  <<"A","n"," ","u","n","e","x","p","e","c","t","e","d"," ","e","r","r","o","r",
    " ","o","c","c","u","r","r","e","d",".">>

\* error: [isError, message]; what is thrown need not be an Error
sanitizeErrorMessage(error) ==
  IF ~error.isError THEN NOT_AN_ERROR
  ELSE
    LET m1 == replaceAll("drive", error.message)
        m2 == replaceAll("path", m1)
        m3 == replaceAll("long", m2)
        m4 == replaceAll("token", m3)
        m5 == replaceAll("stack", m4)
        m6 == IF Len(m5) > MAX_ERROR_LENGTH
              THEN substring(m5, MAX_ERROR_LENGTH) \o Ellipsis ELSE m5
    IN IF m6 = <<>> THEN DEFAULT_ERROR ELSE m6

(***************************************************************************)
(* The dispatcher: PrefixCommandHandler.handleMessage with executeCommand  *)
(* and handleMention (prefix-handler.ts 290-342, 481-3260), and            *)
(* executePrefixCommand with parseArgs and the interceptors (part_001      *)
(* 343-395, 450-508, 543-623).                                             *)
(*                                                                         *)
(* What a dispatch does after its first await is a script: the sequence of *)
(* collaborator calls and replies it attempts.  An attempt fails when the  *)
(* environment makes its class of operation fail during that dispatch.     *)
(***************************************************************************)
PREFIX == <<"!">>

\* the case labels of the switch in executeCommand
SwitchCases ==
  {
   "addreaction", "addrole", "addthreadmember", "ai", "allships",
   "archivedthreads", "archivethread", "ask", "attachments", "audit",
   "auditlog", "automod", "automodrules", "ban", "bans", "bread",
   "breadstick", "breadsticks", "bulkdelete", "bulkprivacy", "button",
   "carbs", "changevoice", "channelperms", "channels", "chat", "clan",
   "claninfo", "clanlookup", "clearemoji", "clearreactions",
   "createannouncement", "createautomod", "createcategory",
   "createchannel", "createemoji", "createevent", "createforum",
   "createinvite", "createrole", "createstage", "createsticker",
   "createtemplate", "createthread", "createvoice", "createwebhook",
   "crosspost", "current", "currentvoice", "delete", "deleteautomod",
   "deletecategory", "deletechannel", "deletedm", "deleteemoji",
   "deleteevent", "deleteinvite", "deleterole", "deletesticker",
   "deletetemplate", "deletewebhook", "dm", "edit", "editautomod",
   "editchannel", "editdm", "editevent", "editmember", "editrole",
   "editserver", "editwelcome", "embed", "emojis", "events", "exportchat",
   "findcategory", "findchannel", "findmember", "follow", "generate",
   "getban", "help", "history", "image", "imagemodels", "imagine", "img",
   "integrations", "invites", "join", "jointhread", "kick", "leave",
   "leavethread", "listchannels", "listincategory", "listroles",
   "listvoices", "listwebhooks", "lockthread", "lockvoice", "lookup",
   "loop", "memberinfo", "members", "movechannel", "music", "mynick",
   "nowplaying", "np", "ocr", "organize", "p", "pause", "pin", "pinned",
   "play", "player", "preview", "previewprune", "previewvoice", "prune",
   "purge", "q", "queue", "react", "read", "readdms", "readimages",
   "removereaction", "removerole", "removethreadmember", "removetimeout",
   "repeat", "resume", "roles", "s", "say", "searchmembers", "selectmenu",
   "send", "server", "serverinfo", "serverstats", "setcategoryposition",
   "setcategoryprivate", "setchannelperms", "setchannelposition",
   "setchannelpositions", "setchannelprivate", "setrolepositions",
   "setvoice", "setwidget", "ships", "skip", "speak", "stats",
   "stickerpacks", "stickers", "stop", "structure", "syncchannelperms",
   "synctemplate", "templates", "testvoice", "threadmembers", "threads",
   "timeout", "topships", "tts", "typing", "unarchivethread", "unban",
   "unlockthread", "unlockvoice", "unpause", "unpin", "unreact",
   "untimeout", "up", "upload", "uptime", "userid", "vanityurl", "vlock",
   "voice", "voiceask", "voiceconnections", "voicejoin", "voiceleave",
   "voiceregions", "voices", "voicestatus", "vol", "volume", "vstatus",
   "vunlock", "webhooks", "webhooksend", "welcomescreen", "widget",
   "widgetsettings", "wows" }

\* command tokens as the names the tables are keyed by
NameOf ==
  <<"b","a","n">> :> "ban" @@
  <<"b">> :> "b" @@
  <<"k","i","c","k">> :> "kick" @@
  <<"k">> :> "k" @@
  <<"t","i","m","e","o","u","t">> :> "timeout" @@
  <<"f","o","o">> :> "foo" @@
  <<"v","o","i","c","e","a","s","k">> :> "voiceask" @@
  <<"s","a","y">> :> "say" @@
  <<"l","o","c","k","v","o","i","c","e">> :> "lockvoice" @@
  <<"u","n","l","o","c","k","v","o","i","c","e">> :> "unlockvoice" @@
  <<"l","e","a","v","e">> :> "leave" @@
  <<"p","r","u","n","e">> :> "prune" @@
  <<"b","u","l","k","d","e","l","e","t","e">> :> "bulkdelete" @@
  <<"p","u","r","g","e">> :> "purge" @@
  <<"s","e","r","v","e","r","i","n","f","o">> :> "serverinfo" @@
  <<"s","e","r","v","e","r">> :> "server" @@
  <<"8","b","a","l","l">> :> "8ball" @@
  <<"p","i","n","g">> :> "ping" @@
  <<"e","x","p","o","r","t","c","h","a","t">> :> "exportchat" @@
  <<"c","r","e","a","t","e","r","o","l","e">> :> "createrole" @@
  <<"c","r","e","a","t","e","c","a","t","e","g","o","r","y">> :> "createcategory"

Name(token) == NameOf[token]

NoError == [isError |-> FALSE, message |-> <<>>]

Step(op, name, class, caught, tag, text, n, detail) ==
  [op |-> op, name |-> name, class |-> class, caught |-> caught, tag |-> tag,
   text |-> text, n |-> n, detail |-> detail, ok |-> TRUE]

\* entering the body of a command's handler
Enter(name) == Step("enter", name, "none", FALSE, "", "", 0, <<>>)
\* an awaited call of a collaborator (DiscordService, the AI service), of the
\* message's channel or of the message itself
Call(name, class) == Step("call", name, class, FALSE, "", "", 0, <<>>)
\* ... whose failure is swallowed: try { } catch { } or .catch(() => {})
CaughtCall(name, class) == Step("call", name, class, TRUE, "", "", 0, <<>>)
\* await message.reply(...): tag names the statement, text its fixed wording,
\* n and detail the number and the text interpolated into it
Reply(tag, text, n, detail) == Step("reply", "message.reply", "reply", FALSE, tag, text, n, detail)

\* what a failing operation throws
ErrorMessages ==
  "collaborator" :> <<"/","s","e","c","r","e","t","/","p","a","t","h"," ","t","o","k","e","n","=","a","b","c","1","2","3">> @@
  "reply" :> <<"M","i","s","s","i","n","g"," ","P","e","r","m","i","s","s","i","o","n","s">> @@
  "channel" :> <<"M","i","s","s","i","n","g"," ","A","c","c","e","s","s">>

\* the classes of operation that fail during one dispatch
Plans == {{}, {"collaborator"}, {"reply"}, {"channel"}}

Thrown(step) == [isError |-> TRUE, message |-> ErrorMessages[step.class]]

EmptyAcc == [trace |-> <<>>, threw |-> FALSE, error |-> NoError]

\* Run a script after what acc records: every step is attempted in turn;
\* the first uncaught failure throws and ends the script.
RECURSIVE Run(_, _, _)
Run(script, plan, acc) ==
  IF script = <<>> THEN acc
  ELSE LET step  == Head(script)
           fails == step.class \in plan
           acc1  == [acc EXCEPT !.trace = Append(@, [step EXCEPT !.ok = ~fails])]
       IN IF fails /\ ~step.caught
          THEN [acc1 EXCEPT !.threw = TRUE, !.error = Thrown(step)]
          ELSE Run(Tail(script), plan, acc1)

\* the exception has been caught
Caught(acc) == [acc EXCEPT !.threw = FALSE, !.error = NoError]

\* SecurityUtils.validateTimeoutDuration
MAX_TIMEOUT == 2419200

validateTimeoutDuration(seconds) ==
  IF seconds < 1 THEN [valid |-> FALSE, clamped |-> FALSE, clampedValue |-> 0]
  ELSE IF seconds > MAX_TIMEOUT
       THEN [valid |-> TRUE, clamped |-> TRUE, clampedValue |-> MAX_TIMEOUT]
       ELSE [valid |-> TRUE, clamped |-> FALSE, clampedValue |-> seconds]

MentionChars == {"<", "@", "!", ">"}

\* executeCommand(message, command, args): the cases of the commands the
\* inbound messages name; a command that matches no case falls to the
\* default, which does nothing.
ConfirmFlag == <<"-","-","c","o","n","f","i","r","m">>

executeCommand(command, args) ==
  IF command \notin SwitchCases THEN <<>>
  ELSE <<Enter(command)>> \o
    CASE command \in {"serverinfo", "server"} ->
           <<Call("getServerInfo", "collaborator"), Reply("result", "", 0, <<>>)>>
      [] command = "kick" ->
           IF sanitizeSnowflake(removeChars(argAt(args, 1), MentionChars)) = <<>>
           THEN <<Reply("usage", "Usage: !kick <@user> [reason]", 0, <<>>)>>
           ELSE <<Call("kickMember", "collaborator"), Reply("result", "", 0, <<>>)>>
      [] command = "ban" ->
           IF sanitizeSnowflake(removeChars(argAt(args, 1), MentionChars)) = <<>>
           THEN <<Reply("usage", "Usage: !ban <@user> [reason]", 0, <<>>)>>
           ELSE <<Call("banMember", "collaborator"), Reply("result", "", 0, <<>>)>>
      [] command = "timeout" ->
           LET userId        == sanitizeSnowflake(removeChars(argAt(args, 1), MentionChars))
               durationInput == parseIntOr(argAt(args, 2), 60)
               durationCheck == validateTimeoutDuration(durationInput)
           IN IF userId = <<>>
              THEN <<Reply("usage", "Usage: !timeout <@user> [durationSeconds] [reason]", 0, <<>>)>>
              ELSE IF ~durationCheck.valid
              THEN <<Reply("warning", "Timeout must be at least 1 second.", 0, <<>>)>>
              ELSE (IF durationCheck.clamped
                    THEN <<Reply("note", "Note: Timeout clamped to maximum of 28 days.", 0, <<>>)>>
                    ELSE <<>>)
                   \o <<Call("timeoutMember", "collaborator"),
                        Reply("result", "", durationCheck.clampedValue, <<>>)>>
      [] command = "prune" ->
           LET days       == parseIntOr(argAt(args, 1), 7)
               hasConfirm == ConfirmFlag \in Range(args)
           IN IF days < 1 \/ days > 30
              THEN <<Reply("usage", "Usage: !prune [days] [reason] (1-30 days)", 0, <<>>)>>
              ELSE IF ~hasConfirm
              THEN <<Call("guild.members.prune dry", "collaborator"),
                     Reply("prune-preview", "Prune Preview", days, <<>>)>>
              ELSE <<Call("guild.members.prune", "collaborator"),
                     Reply("result", "Pruned", days, <<>>)>>

(***************************************************************************)
(* parseArgs (part_001 450-508).  A parsed value is [str], [num] or [bool] *)
(* by its type; the result is the record of parsed arguments, or the error *)
(* thrown.                                                                 *)
(***************************************************************************)
TrueWords == {<<"t","r","u","e">>, <<"y","e","s">>, <<"o","n">>, <<"1">>}

ParseOne(def, raw) ==
  CASE def.type = "number" ->
         LET num == parseInt(raw)
         IN IF num.nan THEN [ok |-> FALSE, error |-> "must be a number", value |-> NoArg]
            ELSE [ok |-> TRUE, error |-> "", value |-> [num |-> num.value]]
    [] def.type = "boolean" ->
         [ok |-> TRUE, error |-> "", value |-> [bool |-> toLowerCase(raw) \in TrueWords]]
    [] def.type = "user" ->
         [ok |-> TRUE, error |-> "", value |-> [str |-> removeChars(raw, {"<", "@", "!", ">"})]]
    [] def.type = "channel" ->
         [ok |-> TRUE, error |-> "", value |-> [str |-> removeChars(raw, {"<", "#", ">"})]]
    [] def.type = "role" ->
         [ok |-> TRUE, error |-> "", value |-> [str |-> removeChars(raw, {"<", "@", "&", ">"})]]
    [] OTHER ->
         [ok |-> TRUE, error |-> "", value |-> [str |-> raw]]

RECURSIVE parseArgsFrom(_, _, _, _, _)
parseArgsFrom(rawArgs, argDefs, k, argIndex, parsed) ==
  IF k > Len(argDefs) THEN [ok |-> TRUE, error |-> "", arg |-> "", parsed |-> parsed]
  ELSE
    LET def == argDefs[k]
        raw == argAt(rawArgs, argIndex + 1)
    IN IF def.rest
       THEN LET text == join(slice(rawArgs, argIndex))
            IN [ok |-> TRUE, error |-> "", arg |-> "",
                parsed |-> IF text = <<>> THEN parsed
                           ELSE (def.name :> [str |-> text]) @@ parsed]
       ELSE IF raw = <<>>
       THEN IF def.required
            THEN [ok |-> FALSE, error |-> "Missing required argument", arg |-> def.name,
                  parsed |-> parsed]
            ELSE parseArgsFrom(rawArgs, argDefs, k + 1, argIndex + 1, parsed)
       ELSE LET one == ParseOne(def, raw)
            IN IF ~one.ok
               THEN [ok |-> FALSE, error |-> one.error, arg |-> def.name, parsed |-> parsed]
               ELSE parseArgsFrom(rawArgs, argDefs, k + 1, argIndex + 1,
                                  (def.name :> one.value) @@ parsed)

\* a parser that takes every definition for optional
parseArgs_AllOptional(rawArgs, argDefs) ==
  parseArgsFrom(rawArgs, [k \in DOMAIN argDefs |-> [argDefs[k] EXCEPT !.required = FALSE]],
                1, 0, <<>>)

parseArgs(rawArgs, argDefs) == parseArgsFrom(rawArgs, argDefs, 1, 0, <<>>)

\* metadata.schema.safeParse(parsedArgs).success for the schema of
\* createcategory: name of 1 to 100 characters, description of at most 1024
safeParse(schema, parsed) ==
  /\ "name" \in DOMAIN parsed
  /\ Len(parsed["name"].str) >= 1 /\ Len(parsed["name"].str) <= 100
  /\ "description" \in DOMAIN parsed => Len(parsed["description"].str) <= 1024

\* PrefixGuards
guardAllows(guard, message) ==
  CASE guard = "guildOnly" -> ~message.dm
    [] guard = "dmOnly"    -> message.dm
    [] guard = "notBot"    -> ~message.bot

\* the bodies of the decorated methods
handler(method, parsedArgs, rawArgs) ==
  <<Enter(method)>> \o
  CASE method = "ping" ->
         <<Reply("pinging", "Pinging...", 0, <<>>), Call("sent.edit", "channel")>>
    [] method = "ban" ->
         <<Call("banMember", "collaborator"), Reply("result", "", 0, <<>>)>>
    [] method = "kick" ->
         <<Call("kickMember", "collaborator"), Reply("result", "", 0, <<>>)>>
    [] method = "createRole" ->
         <<Call("createRole", "collaborator"), Reply("result", "", 0, <<>>)>>
    [] method = "exportChat" ->
         <<Call("exportChatLog", "collaborator"), Reply("result", "", 0, <<>>)>>
    [] method = "createCategory" ->
         <<Call("createCategory", "collaborator"), Reply("result", "", 0, <<>>)>>
    [] method = "eightBall" ->
         IF join(rawArgs) = <<>>
         THEN <<Reply("question", "You need to ask a question!", 0, <<>>)>>
         ELSE <<Reply("8ball", "", 0, <<>>)>>

\* interceptor k of the chain is entered, calls next(), returns or throws
Entered(name, k) == Step("interceptor", name, "none", FALSE, "", "", k, <<>>)
NextCalled(name, k) == Step("next", name, "none", FALSE, "", "", k, <<>>)
Left(name, k, threw) ==
  [Step("leave", name, "none", FALSE, "", "", k, <<>>) EXCEPT !.ok = ~threw]

Log(acc, step) == [acc EXCEPT !.trace = Append(@, step)]

\* PrefixInterceptors, composed by reduceRight: interceptor k wraps the rest
RECURSIVE RunChain(_, _, _, _, _)
RunChain(interceptors, k, script, plan, acc) ==
  IF k > Len(interceptors) THEN Run(script, plan, acc)
  ELSE
    LET name == interceptors[k]
        next(a) == RunChain(interceptors, k + 1, script, plan,
                            Log(a, NextCalled(name, k)))
        entered == Log(acc, Entered(name, k))
        result ==
          CASE name \in {"logging", "timing"} -> next(entered)
            [] name = "typing" ->
                 LET a1 == Run(<<Call("sendTyping", "channel")>>, plan, entered)
                 IN IF a1.threw THEN a1 ELSE next(a1)
            [] name = "deleteCommand" ->
                 LET a1 == next(entered)
                 IN IF a1.threw THEN a1
                    ELSE Run(<<CaughtCall("message.delete", "channel")>>, plan, a1)
            [] name = "reactLoading" ->
                 LET a1 == Run(<<Call("message.react", "channel")>>, plan, entered)
                     a2 == IF a1.threw THEN a1 ELSE next(a1)
                     a3 == IF a2.threw THEN a2
                           ELSE Run(<<Call("reactions.removeAll", "channel"),
                                      Call("message.react", "channel")>>, plan, a2)
                 IN IF a3.threw THEN next(Caught(a3)) ELSE a3
            [] name = "errorHandler" ->
                 LET a1 == next(entered)
                 IN IF a1.threw
                    THEN Run(<<Reply("error-handler",
                                     "An error occurred while executing this command.",
                                     0, <<>>)>>, plan, Caught(a1))
                    ELSE a1
    IN Log(result, Left(name, k, result.threw))

(***************************************************************************)
(* The interceptor chain on its own: a method declared with @Command and   *)
(* any @UseInterceptor lines above it, then the chain of its metadata run  *)
(* once under any failure of the environment.                              *)
(***************************************************************************)
\* most @UseInterceptor lines on one method
MaxInterceptors == 2

InterceptorNames ==
  {"logging", "timing", "typing", "deleteCommand", "reactLoading", "errorHandler"}

\* the @UseInterceptor lines of a declaration, top line first
Declarations ==
  UNION {[1..n -> InterceptorNames] : n \in 0..MaxInterceptors}

Reverse(seq) == [i \in 1..Len(seq) |-> seq[Len(seq) + 1 - i]]

\* decorators run bottom-up: @Command, then the line directly above it, ...
DeclaredMethod(method, name, declared) ==
  DecorateAll(EmptyRegistry, method,
              <<D("Command", [name |-> name])>>
                \o [i \in 1..Len(declared) |-> D("UseInterceptor", Reverse(declared)[i])],
              1)

ChainHandlers == {"ping", "exportChat"}

ChainInit ==
  /\ \E declared \in Declarations, method \in ChainHandlers, plan \in Plans :
       /\ query = [declared |-> declared, method |-> method, plan |-> plan,
                   made |-> FALSE]
       /\ registry = DeclaredMethod(method, "m", declared)
  /\ answer = NoAnswer
  /\ applied = 0
  /\ voiceLocks = {}
  /\ queues = <<>>
  /\ now = 0 /\ commandCooldowns = <<>> /\ cooldowns = <<>> /\ hist = <<>>
  /\ tasks = <<>>

\* await chain()
ChainCall ==
  /\ ~query.made
  /\ query' = [query EXCEPT !.made = TRUE]
  /\ answer' = RunChain(registry.objects[query.method].interceptors, 1,
                        handler(query.method, <<>>, <<>>), query.plan, EmptyAcc)
  /\ UNCHANGED <<regVars, clockVars, tasks>>

ChainNext == ChainCall

ChainSpec == ChainInit /\ [][ChainNext]_vars

(***************************************************************************)
(* Dispatches.  A task is one call of handleMessage or of                  *)
(* executePrefixCommand.  Its synchronous start (everything up to the      *)
(* first await) happens in the step that receives it; it may then be       *)
(* suspended at the await of its guards, and its remaining awaits happen   *)
(* in the step that completes it.                                          *)
(***************************************************************************)
\* process.env.BOT_OWNER_ID
BOT_OWNER_ID == "u0"
GuildOwnerId == "u0"

\* message.member of the authors: u0 owns the guild, u1 moderates, u2 holds
\* nothing
GuildMembers ==
  "u0" :> [permissions |-> {"Administrator"}, roles |-> {}] @@
  "u1" :> [permissions |-> {"BanMembers", "ManageMessages"}, roles |-> {}] @@
  "u2" :> [permissions |-> {}, roles |-> {}]

memberOf(message) ==
  IF message.dm \/ message.author \notin DOMAIN GuildMembers THEN NoMember
  ELSE GuildMembers[message.author]

\* message.member?.permissions.has(perm)
memberHas(message, perm) ==
  memberOf(message) # NoMember /\ has(memberOf(message), perm)

NotChecked ==
  [checked |-> FALSE, allowed |-> FALSE, reason |-> ""]
NoCooldownCheck ==
  [checked |-> FALSE, allowed |-> FALSE, command |-> "", at |-> 0, ms |-> 0,
   remainingMs |-> 0, seconds |-> 0]

NewTask(entry, input) ==
  [entry |-> entry, input |-> input, pc |-> "done", route |-> "", command |-> "",
   args |-> <<>>, perm |-> NotChecked, cd |-> NoCooldownCheck, trace |-> <<>>,
   outcome |-> "returned"]

Suspended(task, route) == [task EXCEPT !.pc = "running", !.route = route]

\* a mention path that keeps its cooldown under the key of the ask command
handleMentionSync_CommandKey(task, store, t) ==
  LET question == trim(replaceAll("mention", task.input.content))
      check    == SecurityUtils_checkCooldown(store, task.input.author, "ask", 5000, t)
      cd       == [checked |-> TRUE, allowed |-> check.allowed, command |-> "ask",
                   at |-> t, ms |-> 5000,
                   remainingMs |-> IF check.allowed THEN 0 ELSE check.remainingMs,
                   seconds |-> IF check.allowed THEN 0 ELSE CeilSeconds(check.remainingMs)]
  IN IF question = <<>>
     THEN [task |-> Suspended(task, "mention-empty"), store |-> store]
     ELSE IF ~check.allowed
     THEN [task |-> [Suspended(task, "mention-throttled") EXCEPT !.cd = cd],
           store |-> check.store]
     ELSE [task |-> [Suspended(task, "mention") EXCEPT !.cd = cd], store |-> check.store]

\* the start of handleMention, to the await of its branch
handleMentionSync(task, store, t) ==
  LET question == trim(replaceAll("mention", task.input.content))
      check    == SecurityUtils_checkCooldown(store, task.input.author, "ai_mention", 5000, t)
      cd       == [checked |-> TRUE, allowed |-> check.allowed, command |-> "ai_mention",
                   at |-> t, ms |-> 5000,
                   remainingMs |-> IF check.allowed THEN 0 ELSE check.remainingMs,
                   seconds |-> IF check.allowed THEN 0 ELSE CeilSeconds(check.remainingMs)]
  IN IF question = <<>>
     THEN [task |-> Suspended(task, "mention-empty"), store |-> store]
     ELSE IF ~check.allowed
     THEN [task |-> [Suspended(task, "mention-throttled") EXCEPT !.cd = cd],
           store |-> check.store]
     ELSE [task |-> [Suspended(task, "mention") EXCEPT !.cd = cd], store |-> check.store]

\* handleMessage once the message is known to start with the prefix, to its
\* first await
handlePrefixedSync(task, message, store, t) ==
    LET words   == split(trim(slice(message.content, Len(PREFIX))))
        token   == toLowerCase(Head(words))
        args    == Tail(words)
    IN IF token = <<>>
       THEN [task |-> [task EXCEPT !.route = "no-command"], store |-> store]
       ELSE
         LET command    == Name(token)
             cooldownMs == cooldownFor(command)
             check      == SecurityUtils_checkCooldown(store, message.author, command,
                                                       cooldownMs, t)
             cd == [checked |-> TRUE, allowed |-> check.allowed, command |-> command,
                    at |-> t, ms |-> cooldownMs,
                    remainingMs |-> IF check.allowed THEN 0 ELSE check.remainingMs,
                    seconds |-> IF check.allowed THEN 0
                                ELSE CeilSeconds(check.remainingMs)]
             sanitizedArgs    == sanitizeCommandArgs(args)
             permissionResult ==
               checkPermission(SourceRules, BOT_OWNER_ID,
                               [member |-> memberOf(message), authorId |-> message.author,
                                guildOwnerId |-> GuildOwnerId],
                               command)
             perm == [checked |-> TRUE, allowed |-> permissionResult.allowed,
                      reason |-> permissionResult.reason]
             checked == [task EXCEPT !.command = command, !.cd = cd]
         IN IF ~check.allowed
            THEN [task |-> Suspended(checked, "throttled"), store |-> check.store]
            ELSE IF ~permissionResult.allowed
            THEN [task |-> [Suspended(checked, "denied") EXCEPT !.perm = perm],
                  store |-> check.store]
            ELSE [task |-> [Suspended(checked, "execute") EXCEPT
                              !.perm = perm, !.args = sanitizedArgs],
                  store |-> check.store]

\* a dispatcher that listens to bots too
handleMessageSync_BotsToo(message, store, t) ==
  LET task == NewTask("handleMessage", message) IN
  IF message.dm THEN handleMentionSync(task, store, t)
  ELSE IF message.mentionsBot /\ ~startsWith(message.content, PREFIX)
  THEN handleMentionSync(task, store, t)
  ELSE IF ~startsWith(message.content, PREFIX)
  THEN [task |-> [task EXCEPT !.route = "no-prefix"], store |-> store]
  ELSE handlePrefixedSync(task, message, store, t)

\* the start of handleMessage, to its first await
handleMessageSync(message, store, t) ==
  LET task == NewTask("handleMessage", message) IN
  IF message.bot THEN [task |-> [task EXCEPT !.route = "bot"], store |-> store]
  ELSE IF message.dm THEN handleMentionSync(task, store, t)
  ELSE IF message.mentionsBot /\ ~startsWith(message.content, PREFIX)
  THEN handleMentionSync(task, store, t)
  ELSE IF ~startsWith(message.content, PREFIX)
  THEN [task |-> [task EXCEPT !.route = "no-prefix"], store |-> store]
  ELSE handlePrefixedSync(task, message, store, t)

\* executePrefixCommand from the cooldown check to the await of its branch
afterGuards(task, metadata, store, t) ==
  LET remainingCooldown == checkCooldown(store, task.input.author, metadata.name,
                                         metadata.cooldown, t)
      cd == [checked |-> TRUE, allowed |-> remainingCooldown.remaining = 0,
             command |-> metadata.name, at |-> t, ms |-> metadata.cooldown * 1000,
             remainingMs |-> 0, seconds |-> remainingCooldown.remaining]
      parsed == parseArgs(task.input.rawArgs, metadata.args)
      checked == [task EXCEPT !.cd = cd]
  IN IF remainingCooldown.remaining > 0
     THEN [task |-> Suspended(checked, "throttled"), store |-> remainingCooldown.store]
     ELSE IF ~parsed.ok
     THEN [task |-> Suspended(checked, "bad-arguments"), store |-> remainingCooldown.store]
     ELSE IF metadata.schema # Undefined /\ ~safeParse(metadata.schema, parsed.parsed)
     THEN [task |-> Suspended(checked, "invalid"), store |-> remainingCooldown.store]
     ELSE [task |-> Suspended(checked, "chain"), store |-> remainingCooldown.store]

\* the start of executePrefixCommand, to its first await
executePrefixCommandSync(input, reg, store, t) ==
  LET task   == NewTask("executePrefixCommand", input)
      name   == Name(toLowerCase(input.commandName))
      target == get(reg, name)
  IN IF target = Undefined
     THEN [task |-> [task EXCEPT !.route = "not-found"], store |-> store]
     ELSE
       LET metadata == reg.objects[target]
           found    == [task EXCEPT !.command = metadata.name]
           missing  == {i \in 1..Len(metadata.permissions) :
                          ~memberHas(input, metadata.permissions[i])}
           deny(reason) ==
             [task |-> [Suspended(found, "denied") EXCEPT
                          !.perm = [checked |-> TRUE, allowed |-> FALSE, reason |-> reason]],
              store |-> store]
           passed == [found EXCEPT !.perm = [checked |-> TRUE, allowed |-> TRUE,
                                             reason |-> ""]]
       IN IF metadata.adminOnly /\ ~memberHas(input, "Administrator")
          THEN deny("This command is admin-only.")
          ELSE IF metadata.modOnly /\ ~memberHas(input, "ManageMessages")
          THEN deny("This command is moderator-only.")
          ELSE IF missing # {}
          THEN deny("You need the permission to use this command.")
          ELSE IF metadata.guards # <<>>
          THEN [task |-> [passed EXCEPT !.pc = "guards", !.route = "guards"],
                store |-> store]
          ELSE afterGuards(passed, metadata, store, t)

\* executePrefixCommand resumed after the await of its guards
resumeSync(task, reg, store, t) ==
  LET metadata == reg.objects[get(reg, task.command)]
      refused  == {i \in 1..Len(metadata.guards) :
                     ~guardAllows(metadata.guards[i], task.input)}
  IN IF refused # {}
     THEN [task |-> [Suspended(task, "denied") EXCEPT
                       !.perm = [checked |-> TRUE, allowed |-> FALSE,
                                 reason |-> "You cannot use this command."]],
           store |-> store]
     ELSE afterGuards(task, metadata, store, t)

\* the try block of handleMention; speech only inside a guild
MentionScript(message) ==
  <<Call("aiService.chat", "collaborator"),
    Call("SecurityUtils.containsBlockedContent", "collaborator"),
    Reply("ai-response", "", 0, <<>>)>>
  \o (IF message.dm THEN <<>> ELSE <<CaughtCall("speakText", "collaborator")>>)

\* the catch of handleMessage around executeCommand
handleMessageCatch(a, plan) ==
  IF a.threw
  THEN Run(<<Reply("error", "Error: ", 0, sanitizeErrorMessage(a.error))>>, plan, Caught(a))
  ELSE a

\* the catch of handleMention around its try block
handleMentionCatch(a, plan) ==
  IF a.threw
  THEN Run(<<Reply("mention-error", "Sorry, I had trouble thinking about that: ",
                   0, a.error.message)>>, plan, Caught(a))
  ELSE a

\* handleMention from its await of sendTyping on
handleMentionTry(message, a0, plan) ==
  IF a0.threw THEN a0 ELSE handleMentionCatch(Run(MentionScript(message), plan, a0), plan)

\* what a suspended task does from its await on: the calls it makes and
\* whether it returns or throws
Settle(task, reg, plan) ==
  LET one(reply) == Run(<<reply>>, plan, EmptyAcc)
  IN    IF task.entry = "handleMessage" THEN
          CASE task.route = "throttled" ->
                 one(Reply("cooldown", "Please wait Ns before using this command again.",
                           task.cd.seconds, <<>>))
            [] task.route = "denied" -> one(Reply("deny", task.perm.reason, 0, <<>>))
            [] task.route = "execute" ->
                 handleMessageCatch(Run(executeCommand(task.command, task.args), plan,
                                        EmptyAcc), plan)
            [] task.route = "mention-empty" ->
                 one(Reply("mention-hint",
                           "Hey! You can ask me anything. Just @mention me with your question!",
                           0, <<>>))
            [] task.route = "mention-throttled" ->
                 one(Reply("cooldown", "Please wait Ns before asking again.",
                           task.cd.seconds, <<>>))
            [] task.route = "mention" ->
                 handleMentionTry(task.input,
                                  Run(<<Call("sendTyping", "channel")>>, plan, EmptyAcc),
                                  plan)
        ELSE
          LET metadata == reg.objects[get(reg, task.command)]
              parsed   == parseArgs(task.input.rawArgs, metadata.args)
          IN CASE task.route = "denied" -> one(Reply("deny", task.perm.reason, 0, <<>>))
               [] task.route = "throttled" ->
                    one(Reply("cooldown", "Please wait Ns before using this command again.",
                              task.cd.seconds, <<>>))
               [] task.route = "bad-arguments" ->
                    one(Reply("bad-arguments", parsed.error, 0, <<>>))
               [] task.route = "invalid" ->
                    one(Reply("invalid", "Validation error: ", 0, <<>>))
               [] task.route = "chain" ->
                    RunChain(metadata.interceptors, 1,
                             handler(metadata.handler, parsed.parsed, task.input.rawArgs),
                             plan, EmptyAcc)

Settled(task, acc) ==
  [task EXCEPT !.pc = "done", !.trace = acc.trace,
               !.outcome = IF acc.threw THEN "threw" ELSE "returned"]

\* everything a suspended task does from its await to its return or throw
Finish(task, reg, plan) == Settled(task, Settle(task, reg, plan))

(***************************************************************************)
(* Traffic: the messages that arrive and the failures of the environment.  *)
(***************************************************************************)
\* most messages dispatched in one run
MaxMessages == 2

Message(author, bot, dm, mentionsBot, content) ==
  [author |-> author, bot |-> bot, dm |-> dm, mentionsBot |-> mentionsBot,
   content |-> content, commandName |-> <<>>, rawArgs |-> <<>>]

Invocation(author, commandName, rawArgs) ==
  [author |-> author, bot |-> FALSE, dm |-> FALSE, mentionsBot |-> FALSE,
   content |-> <<>>, commandName |-> commandName, rawArgs |-> rawArgs]

TargetMention == <<"<","@","1","1","1","1","1","1","1","1","1","1","1","1","1","1","1","1","1","1",">">>

\* the messages handed to handleMessage
Inbound ==
  { Message("bot", TRUE, FALSE, FALSE, <<"!","b","a","n"," ","<","@","1","1","1","1","1","1","1","1","1","1","1","1","1","1","1","1","1","1",">">>),
    Message("u2", FALSE, FALSE, FALSE, <<"h","e","l","l","o">>),
    Message("u2", FALSE, FALSE, FALSE, <<"!"," ">>),
    Message("u2", FALSE, TRUE, FALSE, <<"h","i">>),
    Message("u2", FALSE, FALSE, TRUE, <<"<","@","9","9","9","9","9","9","9","9","9","9","9","9","9","9","9","9","9","9",">"," ","h","i">>),
    Message("u2", FALSE, FALSE, FALSE, <<"!","b","a","n"," ","<","@","1","1","1","1","1","1","1","1","1","1","1","1","1","1","1","1","1","1",">"," ","s","p","a","m","m","i","n","g">>),
    Message("u2", FALSE, FALSE, FALSE, <<"!","f","o","o">>),
    Message("u1", FALSE, FALSE, FALSE, <<"!","T","i","m","e","o","u","t"," ","<","@","1","1","1","1","1","1","1","1","1","1","1","1","1","1","1","1","1","1",">"," ","9","9","9","9","9","9","9","9">>),
    Message("u2", FALSE, FALSE, FALSE, <<"!","s","e","r","v","e","r","i","n","f","o">>) }

\* the calls of executePrefixCommand
Invocations ==
  { Invocation("u1", <<"b","a","n">>, <<TargetMention>>),
    Invocation("u2", <<"b","a","n">>, <<TargetMention>>),
    Invocation("u1", <<"b">>, <<TargetMention>>),
    Invocation("u1", <<"k","i","c","k">>, <<TargetMention>>),
    Invocation("u2", <<"8","b","a","l","l">>, <<<<"w","e","l","l","?">>>>) }

Init ==
  /\ tasks = <<>>
  /\ now = StartNow
  /\ commandCooldowns = <<>>
  /\ cooldowns = <<>>
  /\ registry = LoadedRegistry
  /\ applied = 0
  /\ voiceLocks = {}
  /\ queues = <<>>
  /\ hist = NoHistory
  /\ query = NoAnswer
  /\ answer = NoAnswer

\* the clock advances by a cooldown window at a time
ElapseMs == 5000
\* ... at most this many times
MaxElapses == 1

Elapse ==
  /\ now < StartNow + MaxElapses * ElapseMs
  /\ now' = now + ElapseMs
  /\ UNCHANGED <<callVars, regVars, commandCooldowns, cooldowns, hist, tasks>>

\* handleMessage called with one of the messages of inbound
Receive(inbound) ==
  /\ Len(tasks) < MaxMessages
  /\ \E message \in inbound :
       LET r == handleMessageSync(message, commandCooldowns, now)
       IN /\ tasks' = Append(tasks, r.task)
          /\ commandCooldowns' = r.store
  /\ UNCHANGED <<callVars, regVars, now, cooldowns, hist>>

handleMessage == Receive(Inbound)

\* executePrefixCommand called with one of the invocations
Invoke(invocations) ==
  /\ Len(tasks) < MaxMessages
  /\ \E input \in invocations :
       LET r == executePrefixCommandSync(input, registry, cooldowns, now)
       IN /\ tasks' = Append(tasks, r.task)
          /\ cooldowns' = r.store
  /\ UNCHANGED <<callVars, regVars, now, commandCooldowns, hist>>

executePrefixCommand == Invoke(Invocations)

GuardsSettle ==
  /\ \E i \in 1..Len(tasks) :
       /\ tasks[i].pc = "guards"
       /\ LET r == resumeSync(tasks[i], registry, cooldowns, now)
          IN /\ tasks' = [tasks EXCEPT ![i] = r.task]
             /\ cooldowns' = r.store
  /\ UNCHANGED <<callVars, regVars, now, commandCooldowns, hist>>

Complete ==
  /\ \E i \in 1..Len(tasks), plan \in Plans :
       /\ tasks[i].pc = "running"
       /\ tasks' = [tasks EXCEPT ![i] = Finish(tasks[i], registry, plan)]
  /\ UNCHANGED <<callVars, regVars, clockVars>>

Next ==
  \/ Elapse
  \/ handleMessage
  \/ executePrefixCommand
  \/ GuardsSettle
  \/ Complete

Spec == Init /\ [][Next]_vars

(***************************************************************************)
(* Claims about the permission evaluator (checked under PermSpec).         *)
(***************************************************************************)
\* the caller of the query is the configured bot owner
QueryIsBotOwner ==
  query.botOwnerId \notin {Unset, ""} /\ query.authorId = query.botOwnerId

\* the first rule set, in the order of spec section 4.3, that holds the name
FirstSet(rules, c) ==
  IF c \in rules.disabled THEN "disabled"
  ELSE IF c \in rules.ownerOnly THEN "ownerOnly"
  ELSE IF c \in rules.adminRequired THEN "adminRequired"
  ELSE IF c \in rules.modRequired THEN "modRequired"
  ELSE IF c \in rules.commanderOnly THEN "commanderOnly"
  ELSE IF c \in DOMAIN rules.permissions /\ Len(rules.permissions[c]) > 0
       THEN "permissions"
  ELSE IF c \in rules.adminOnly THEN "adminOnly"
  ELSE "public"

\* what one rule set, taken alone, grants the caller of the query
SetAllows(set) ==
  LET m        == query.member
      admin    == "Administrator" \in m.permissions
      holds(p) == p \in m.permissions \/ admin
      listed   == query.rules.permissions[query.command]
  IN  CASE set = "disabled"      -> QueryIsBotOwner
        [] set = "ownerOnly"     -> QueryIsBotOwner
        [] set = "adminRequired" -> QueryIsBotOwner \/ admin
        [] set = "modRequired"   ->
             \/ QueryIsBotOwner
             \/ \E p \in {"KickMembers", "BanMembers", "ManageMessages",
                           "ModerateMembers"} : holds(p)
        [] set = "commanderOnly" ->
             \/ QueryIsBotOwner
             \/ query.guildOwnerId = query.authorId
             \/ \E r \in m.roles : \E n \in COMMANDER_ROLE_NAMES :
                   includes(toLowerCase(r), n)
        [] set = "permissions"   ->
             QueryIsBotOwner \/ \A i \in 1..Len(listed) : holds(listed[i])
        [] set = "adminOnly"     -> QueryIsBotOwner \/ admin
        [] set = "public"        -> TRUE

\* C1: for a caller whose guild membership is resolved, the decision of
\* checkPermission is the decision of the first rule set (Disabled, Owner-only,
\* Admin-required, Moderator-required, Role-name-restricted, capability list,
\* legacy admin list, public) that holds the command name, whatever later sets
\* hold it too; a name in both Owner-only and Admin-required is denied to an
\* Administrator who is not the bot owner.
C1_TierPrecedence ==
  (answer # NoAnswer /\ query.member # NoMember) =>
    /\ answer.allowed = SetAllows(FirstSet(query.rules, query.command))
    /\ ( /\ query.command \in query.rules.ownerOnly \cap query.rules.adminRequired
         /\ "Administrator" \in query.member.permissions
         /\ ~QueryIsBotOwner
         => ~answer.allowed /\ answer.reason = REASON_OWNER )

C1_Witness ==
  /\ answer # NoAnswer
  /\ query.member # NoMember
  /\ query.command \in query.rules.ownerOnly \cap query.rules.adminRequired
  /\ "Administrator" \in query.member.permissions
  /\ ~QueryIsBotOwner
  /\ ~answer.allowed

\* C2: a command of the Disabled-by-default or the Owner-only set is allowed
\* only to the configured bot owner, whatever permissions, roles or guild
\* ownership another caller holds.
C2_OwnerTiersOnlyOwner ==
  ( /\ answer # NoAnswer
    /\ query.command \in query.rules.disabled \cup query.rules.ownerOnly )
  => (answer.allowed => QueryIsBotOwner)

C2_Witness ==
  /\ answer # NoAnswer
  /\ query.command \in query.rules.disabled \cup query.rules.ownerOnly
  /\ query.member # NoMember
  /\ "Administrator" \in query.member.permissions
  /\ query.guildOwnerId = query.authorId
  /\ ~QueryIsBotOwner
  /\ ~answer.allowed
(***************************************************************************)
(* Claims about the registry (checked under RegSpec).                      *)
(***************************************************************************)
\* C8: after any sequence of registrations, every alias in the alias list of
\* a registered command resolves to the same metadata object as the
\* command's canonical name.
C8_AliasDeterminism ==
  \A n \in DOMAIN registry.commands :
    LET metadata == registry.objects[registry.commands[n]] IN
    \A i \in 1..Len(metadata.aliases) :
      get(registry, metadata.aliases[i]) = get(registry, metadata.name)
(***************************************************************************)
(* Claims about the cooldown checks (checked under CooldownSpec).          *)
(***************************************************************************)
LastCallMade == "made" \in DOMAIN query /\ query.made

\* the last allowed use of the key of the last call, before that call
EverArmed == query.key \in DOMAIN query.before.armed
LastArmed == query.before.armed[query.key]
InsideWindow == EverArmed /\ query.at - LastArmed < query.ms
Remaining == query.ms - (query.at - LastArmed)
DeniedBefore == query.before.denied # NoDenial /\ query.before.denied.key = query.key
StoredEntry ==
  IF query.fn = "SecurityUtils" THEN commandCooldowns[query.key[1]][query.key[2]]
  ELSE cooldowns[query.key[1]][query.key[2]]

Done(task) == task.pc = "done"
Prefixed(task) ==
  task.entry = "handleMessage" /\ task.route \in {"throttled", "denied", "execute"}
Decorated(task) ==
  task.entry = "executePrefixCommand" /\ task.route # "not-found"
Replies(task) == SelectSeq(task.trace, LAMBDA step : step.op = "reply")
SentReplies(task) == SelectSeq(task.trace, LAMBDA step : step.op = "reply" /\ step.ok)
HandlerInvoked(task) == \E k \in 1..Len(task.trace) : task.trace[k].op = "enter"

\* what the permission evaluator says of the caller and command of a
\* prefixed message, whether or not the dispatch came to ask it
Evaluation(task) ==
  checkPermission(SourceRules, BOT_OWNER_ID,
                  [member |-> memberOf(task.input), authorId |-> task.input.author,
                   guildOwnerId |-> GuildOwnerId],
                  task.command)

EvaluatorDenies(task) ==
  \/ Prefixed(task) /\ ~Evaluation(task).allowed
  \/ Decorated(task) /\ task.perm.checked /\ ~task.perm.allowed

DenyReason(task) ==
  IF Prefixed(task) THEN Evaluation(task).reason ELSE task.perm.reason

BanSpamming == <<"!","b","a","n"," ","<","@","1","1","1","1","1","1","1","1","1","1","1","1","1","1","1","1","1","1",">"," ","s","p","a","m","m","i","n","g">>

\* C3: whenever the permission evaluator denies the caller for the command,
\* the dispatch ends with exactly one reply, the deny reason, and the
\* command's handler is never invoked; u2, who holds no moderation
\* permission, gets the moderator-requirement reply for !ban @user spamming.
C3_DeniedGetsOneDenyReply ==
  \A i \in 1..Len(tasks) :
    Done(tasks[i]) /\ EvaluatorDenies(tasks[i]) =>
      /\ Len(Replies(tasks[i])) = 1
      /\ Replies(tasks[i])[1].tag = "deny"
      /\ Replies(tasks[i])[1].text = DenyReason(tasks[i])
      /\ ~HandlerInvoked(tasks[i])
      /\ (Prefixed(tasks[i]) /\ tasks[i].input.content = BanSpamming
            => Replies(tasks[i])[1].text = REASON_MOD)

\* C4: no dispatch lets an exception escape: every call of handleMessage
\* and of executePrefixCommand that has ended has returned normally.
C4_NoExceptionEscapes ==
  \A i \in 1..Len(tasks) : Done(tasks[i]) => tasks[i].outcome = "returned"

\* the handler was entered and a collaborator it awaited threw
HandlerThrew(task) ==
  \E j, k \in 1..Len(task.trace) :
    /\ j < k
    /\ task.trace[j].op = "enter"
    /\ task.trace[k].op = "call" /\ task.trace[k].class = "collaborator"
    /\ ~task.trace[k].ok /\ ~task.trace[k].caught

SecretPath == <<"/","s","e","c","r","e","t","/","p","a","t","h">>
SecretToken == <<"a","b","c","1","2","3">>

\* C5: a handler that throws an uncaught exception results in exactly one
\* reply sent for that invocation, the sanitized failure message, which for
\* Error("/secret/path token=abc123") holds neither /secret/path nor abc123.
C5_ThrowGetsOneSanitizedReply ==
  \A i \in 1..Len(tasks) :
    Done(tasks[i]) /\ HandlerThrew(tasks[i]) =>
      /\ Len(SentReplies(tasks[i])) = 1
      /\ SentReplies(tasks[i])[1].tag \in {"error", "error-handler"}
      /\ ~includes(SentReplies(tasks[i])[1].detail, SecretPath)
      /\ ~includes(SentReplies(tasks[i])[1].detail, SecretToken)

Denied(task) == task.perm.checked /\ ~task.perm.allowed

\* C6: the permission check runs before the cooldown check: the step in
\* which a dispatch is denied permission has not checked its cooldown and
\* leaves both cooldown stores as they were.
C6_PermissionBeforeCooldown ==
  [][\A i \in 1..Len(tasks') :
       Denied(tasks'[i]) /\ (i > Len(tasks) \/ ~Denied(tasks[i])) =>
         /\ ~tasks'[i].cd.checked
         /\ UNCHANGED <<commandCooldowns, cooldowns>>]_vars

\* C7: a prefixed message whose command token matches no known command
\* gets no reply at all and no handler, whatever came before it.
C7_UnknownCommandSilent ==
  \A i \in 1..Len(tasks) :
    /\ Done(tasks[i])
    /\ \/ Prefixed(tasks[i]) /\ tasks[i].command \notin SwitchCases
       \/ tasks[i].entry = "executePrefixCommand" /\ tasks[i].route = "not-found"
    => /\ Replies(tasks[i]) = <<>>
       /\ ~HandlerInvoked(tasks[i])

\* the cooldown store a dispatch checks, and its entry for the dispatch
StoreOf(task) == IF task.entry = "handleMessage" THEN commandCooldowns ELSE cooldowns
SameKey(a, b) ==
  /\ a.entry = b.entry
  /\ a.cd.command = b.cd.command
  /\ a.input.author = b.input.author
Passed(task) == task.cd.checked /\ task.cd.allowed /\ task.cd.ms > 0
Armed(task) ==
  LET store == StoreOf(task)
      key   == task.cd.command
      user  == task.input.author
  IN /\ key \in DOMAIN store
     /\ user \in DOMAIN store[key]
     /\ store[key][user] >= (IF task.entry = "handleMessage" THEN task.cd.at
                             ELSE task.cd.at + task.cd.ms)

\* C9: under every interleaving of the dispatches in flight, a dispatch
\* that passes the cooldown check has armed the entry in the same step, so
\* two invocations of one command by one caller that both pass are at least
\* a cooldown window apart, whichever of them was received first.
C9_CheckAndArmAtomic ==
  /\ \A i \in 1..Len(tasks) : Passed(tasks[i]) => Armed(tasks[i])
  /\ \A i, j \in 1..Len(tasks) :
       /\ i < j
       /\ SameKey(tasks[i], tasks[j])
       /\ Passed(tasks[i]) /\ Passed(tasks[j])
       => \/ tasks[j].cd.at - tasks[i].cd.at >= tasks[i].cd.ms
          \/ tasks[i].cd.at - tasks[j].cd.at >= tasks[i].cd.ms

\* two dispatches of one command by one caller in flight at once: the first
\* passed the check, the second was refused
C9_Witness ==
  /\ Len(tasks) >= 2
  /\ tasks[1].pc = "running" /\ tasks[2].pc = "running"
  /\ SameKey(tasks[1], tasks[2])
  /\ Passed(tasks[1])
  /\ tasks[2].cd.checked /\ ~tasks[2].cd.allowed
  /\ tasks[2].cd.at = tasks[1].cd.at

(***************************************************************************)
(* Claims about disabled cooldowns.                                        *)
(***************************************************************************)
\* C11: a cooldown check with cooldown <= 0 always allows the call and
\* tracks nothing: both cooldown stores are as the call found them.
C11_DisabledCooldownTracksNothing ==
  (LastCallMade /\ query.ms <= 0) =>
    /\ answer.allowed
    /\ commandCooldowns = query.before.commandCooldowns
    /\ cooldowns = query.before.cooldowns

(***************************************************************************)
(* Claims about denied cooldown checks.                                    *)
(***************************************************************************)
\* the stored time of a user for a command, 0 when there is none
EntryOf(store, command, user) ==
  IF command \in DOMAIN store /\ user \in DOMAIN store[command]
  THEN store[command][user] ELSE 0
StoresAsFound ==
  /\ commandCooldowns = query.before.commandCooldowns
  /\ cooldowns = query.before.cooldowns
\* the entry of the last call's key in the store its module keeps
EntryIn(stores) ==
  EntryOf(IF query.fn = "SecurityUtils" THEN stores.commandCooldowns ELSE stores.cooldowns,
          query.key[1], query.key[2])

\* C29: a cooldown check that denies leaves both cooldown stores exactly as
\* it found them; a store differs after a check only when the check allowed,
\* so an attempt inside the window never moves the end of the window.
C29_DenialLeavesStore ==
  LastCallMade =>
    /\ ~answer.allowed => StoresAsFound
    /\ ~StoresAsFound => answer.allowed

\* a second attempt one tick into the window of a SecurityUtils cooldown, and
\* of a decorator cooldown, is denied with the entry armed by the first
C29_Witness ==
  /\ LastCallMade
  /\ ~answer.allowed
  /\ query.at = StartNow + TickMs
  /\ EntryIn(query.before) # 0
  /\ EntryIn([commandCooldowns |-> commandCooldowns, cooldowns |-> cooldowns])
       = IF query.fn = "SecurityUtils" THEN StartNow ELSE StartNow + query.ms

(***************************************************************************)
(* Claims about the sweep of a crowded cooldown map (SweepSpec).           *)
(***************************************************************************)
SweepCallMade == "made" \in DOMAIN query /\ query.made /\ "user" \in DOMAIN query
\* the entry of a user in the map of the last call's command as the call
\* found it, after the call has set its caller's entry, and as the call left it
FoundUsers ==
  IF query.command \in DOMAIN query.before THEN DOMAIN query.before[query.command] ELSE {}
Found(uid) == query.before[query.command][uid]
ArmedUsers == FoundUsers \cup {query.user}
AfterSet(uid) == IF uid = query.user THEN query.at ELSE Found(uid)
LeftUsers == DOMAIN commandCooldowns[query.command]
AfterCall(uid) == commandCooldowns[query.command][uid]
Evicted == FoundUsers \ LeftUsers
TooOld(time) == query.at - time > SWEEP_AGE
ConfiguredCooldowns == {COMMAND_COOLDOWNS[c] : c \in DOMAIN COMMAND_COOLDOWNS}
\* SecurityUtils.checkCooldown denies a user last allowed at lastUsed
Throttled(lastUsed, cooldownMs) == query.at - lastUsed < cooldownMs

\* C30: a check evicts entries of its command's map only when it allowed and
\* the map then holds more than SWEEP_SIZE entries; it then removes exactly
\* the entries stamped more than SWEEP_AGE ms before the current time and
\* keeps the others as they were; the maps of other commands are untouched;
\* an evicted entry was expired for every cooldown of COMMAND_COOLDOWNS, so
\* whoever was throttled for the command before the sweep still is after it.
C30_SweepOnlyExpired ==
  SweepCallMade =>
    /\ Evicted # {} => answer.allowed /\ Cardinality(ArmedUsers) > SWEEP_SIZE
    /\ answer.allowed =>
         /\ LeftUsers =
              IF Cardinality(ArmedUsers) > SWEEP_SIZE
              THEN {uid \in ArmedUsers : ~TooOld(AfterSet(uid))}
              ELSE ArmedUsers
         /\ \A uid \in LeftUsers : AfterCall(uid) = AfterSet(uid)
    /\ \A command \in DOMAIN query.before \ {query.command} :
         command \in DOMAIN commandCooldowns
           /\ commandCooldowns[command] = query.before[command]
    /\ \A uid \in Evicted : \A cooldownMs \in ConfiguredCooldowns :
         ~Throttled(Found(uid), cooldownMs)
    /\ \A uid \in FoundUsers \ {query.user} :
         Throttled(Found(uid), query.ms) =>
           uid \in LeftUsers /\ Throttled(AfterCall(uid), query.ms)

\* a new user's allowed !prune makes the map hold SWEEP_SIZE + 1 entries and
\* sweeps it: the entries of SWEEP_AGE + 1 ms and older go, the entry of
\* exactly SWEEP_AGE ms and the throttled ones stay
C30_Witness ==
  /\ SweepCallMade
  /\ answer.allowed
  /\ query.command = "prune"
  /\ query.at = StartNow
  /\ query.user \notin FoundUsers
  /\ Cardinality(FoundUsers) = SWEEP_SIZE
  /\ \E uid \in Evicted : query.at - Found(uid) = SWEEP_AGE + 1
  /\ \E uid \in LeftUsers : query.at - AfterCall(uid) = SWEEP_AGE
  /\ \E uid \in LeftUsers : Throttled(AfterCall(uid), query.ms)

(***************************************************************************)
(* Claims about the interceptor chain.                                     *)
(***************************************************************************)
ChainRan == "made" \in DOMAIN query /\ query.made /\ "declared" \in DOMAIN query
HandlerRuns == Cardinality({p \in 1..Len(answer.trace) : answer.trace[p].op = "enter"})

\* C12: in one dispatch the handler is executed at most once, and exactly
\* once when nothing fails; no interceptor, on a success or a failure path,
\* makes it run a second time.
C12_HandlerRunsOnce ==
  ChainRan =>
    /\ HandlerRuns <= 1
    /\ query.plan = {} => HandlerRuns = 1

\* the chain of the declaration: the line directly above @Command first
ChainOrder == Reverse(query.declared)
ChainEvent(p) == answer.trace[p]
FromNextOf(k, p) ==
  p > 1 /\ ChainEvent(p - 1).op = "next" /\ ChainEvent(p - 1).n = k

ErrorHandlerLeaves ==
  {p \in 1..Len(answer.trace) :
     ChainEvent(p).op = "leave" /\ ChainEvent(p).name = "errorHandler"}
\* its catch block ran: the step before it leaves is its own reply
CatchReplied(p) == p > 1 /\ ChainEvent(p - 1).tag = "error-handler"
\* the last step of what its next() ran
LastDownstream(p) == IF CatchReplied(p) THEN ChainEvent(p - 2) ELSE ChainEvent(p - 1)
\* next() threw: its last step is a failed operation or an interceptor that
\* left by throwing
DownstreamThrew(p) == ~LastDownstream(p).ok /\ ~LastDownstream(p).caught
ErrorReplySent(p) == CatchReplied(p) /\ ChainEvent(p - 1).ok

\* C28: with PrefixInterceptors.errorHandler in the chain, an exception
\* thrown by what runs inside its next() (inner interceptors or the handler)
\* does not leave it: errorHandler returns normally and exactly one error
\* reply has been sent in the exception's place.
C28_ErrorHandlerContains ==
  ChainRan =>
    \A p \in ErrorHandlerLeaves :
      DownstreamThrew(p) => ChainEvent(p).ok /\ ErrorReplySent(p)

\* what does hold: the exception is contained whenever Discord accepts the
\* reply of the catch block, and errorHandler sends nothing when next()
\* returned
C28_ContainsWhenReplyAccepted ==
  ChainRan =>
    \A p \in ErrorHandlerLeaves :
      /\ (DownstreamThrew(p) /\ "reply" \notin query.plan) =>
           ChainEvent(p).ok /\ ErrorReplySent(p)
      /\ ~DownstreamThrew(p) => ChainEvent(p).ok /\ ~CatchReplied(p)

\* the handler's own reply was refused, the reply of the catch block was
\* refused as well, and the second exception left errorHandler
C28_EscapedErrorHandler ==
  /\ ChainRan
  /\ \E p \in ErrorHandlerLeaves :
       /\ DownstreamThrew(p) /\ CatchReplied(p)
       /\ ~ChainEvent(p).ok /\ ~ErrorReplySent(p)
  /\ answer.threw

(***************************************************************************)
(* Claims about the messages a dispatch sends.                             *)
(***************************************************************************)
KnownCommand(task) ==
  \/ Prefixed(task) /\ task.command \in SwitchCases
  \/ Decorated(task)
EveryReplySent(task) == Replies(task) = SentReplies(task)

\* C14: every dispatch of a known command ends having sent exactly one
\* user-visible message, whichever terminal state it reaches (no reply of
\* the dispatch having been refused by Discord).
C14_ExactlyOneMessage ==
  \A i \in 1..Len(tasks) :
    (Done(tasks[i]) /\ KnownCommand(tasks[i]) /\ EveryReplySent(tasks[i])) =>
      Len(SentReplies(tasks[i])) = 1

(***************************************************************************)
(* Claims about single tiers of the permission evaluator (PermSpec).       *)
(***************************************************************************)
Answered == answer # NoAnswer /\ "rules" \in DOMAIN query
ModerationFlags == {"KickMembers", "BanMembers", "ManageMessages", "ModerateMembers"}
\* the caller holds the permission (an Administrator holds every permission;
\* a caller whose membership is not resolved holds none)
Holds(perm) ==
  /\ query.member # NoMember
  /\ perm \in query.member.permissions \/ "Administrator" \in query.member.permissions

ModeratorRule ==
  IF QueryIsBotOwner THEN answer.allowed
  ELSE answer.allowed <=> \E perm \in ModerationFlags : Holds(perm)

\* C15 as stated: for a command of the Moderator-required set the bot owner
\* is always allowed, and any other caller is allowed exactly when holding
\* at least one of the four moderation permissions.
C15_AsStated ==
  (Answered /\ query.command \in query.rules.modRequired) => ModeratorRule

\* C15: for a command of the Moderator-required set and a caller whose guild
\* membership is resolved, the bot owner is always allowed and any other
\* caller is allowed exactly when holding at least one of KickMembers,
\* BanMembers, ManageMessages, ModerateMembers.
C15_ModeratorTier ==
  (Answered /\ query.command \in query.rules.modRequired /\ query.member # NoMember)
    => ModeratorRule

\* a caller, not the owner, allowed on ManageMessages alone
C15_Witness ==
  /\ Answered
  /\ query.command = "ban"
  /\ ~QueryIsBotOwner
  /\ query.member # NoMember
  /\ query.member.permissions = {"ManageMessages"}
  /\ answer.allowed

InNoTierSet ==
  query.command \notin
    (query.rules.disabled \cup query.rules.ownerOnly \cup query.rules.adminRequired
       \cup query.rules.modRequired \cup query.rules.commanderOnly)
HasCapabilityList ==
  /\ query.command \in DOMAIN query.rules.permissions
  /\ Len(query.rules.permissions[query.command]) > 0
ListedCapabilities == Range(query.rules.permissions[query.command])

CapabilityRule ==
  IF QueryIsBotOwner THEN answer.allowed
  ELSE answer.allowed <=> \A perm \in ListedCapabilities : Holds(perm)

\* C16 as stated: for a command in none of the five tier sets that has a
\* capability list, the bot owner is always allowed and any other caller is
\* allowed exactly when holding every listed capability.
C16_AsStated ==
  (Answered /\ InNoTierSet /\ HasCapabilityList) => CapabilityRule

\* C16: for such a command and a caller whose guild membership is resolved,
\* the bot owner is always allowed and any other caller is allowed exactly
\* when holding every capability of the list.
C16_CapabilityList ==
  (Answered /\ InNoTierSet /\ HasCapabilityList /\ query.member # NoMember)
    => CapabilityRule

\* a caller holding one of two listed capabilities is denied
C16_Witness ==
  /\ Answered
  /\ query.command = "twoperms"
  /\ query.rules = TwoSetRules
  /\ ~QueryIsBotOwner
  /\ query.member # NoMember
  /\ query.member.permissions = {"ManageMessages"}
  /\ ~answer.allowed

(***************************************************************************)
(* Argument definitions and their parsing as a state machine: a method is  *)
(* declared with @Args above @Command (part_001 165-241), then parseArgs   *)
(* (450-508) is applied to the tokens of one invocation.                   *)
(***************************************************************************)
\* most argument definitions of a command
MaxDefs == 2
\* most tokens after the command name
MaxTokens == 2

\* tokens come from split(/\s+/) of the trimmed text: never empty
Tokens ==
  {<<"4", "2">>, <<"7">>, <<"a", "b", "c">>, <<"4", "2", "a", "b", "c">>,
   <<"0", "x", "1", "0">>}
ArgNames == <<"count", "second", "third", "fourth">>
ArgTypes == {"string", "number"}

TokenLists == UNION {[1..n -> Tokens] : n \in 0..MaxTokens}
ArgOptions(k) ==
  {[name |-> ArgNames[k], type |-> t, required |-> r, rest |-> x] :
     t \in ArgTypes, r \in BOOLEAN, x \in BOOLEAN}
ArgOptionLists ==
  UNION {{defs \in [1..n -> UNION {ArgOptions(k) : k \in 1..n}] :
            \A k \in 1..n : defs[k].name = ArgNames[k]} : n \in 0..MaxDefs}

ArgInit ==
  /\ query \in {[defs |-> d, tokens |-> t, stage |-> "new"] :
                  d \in ArgOptionLists, t \in TokenLists}
  /\ answer = NoAnswer
  /\ registry = EmptyRegistry
  /\ applied = 0
  /\ voiceLocks = {}
  /\ queues = <<>>
  /\ now = 0 /\ commandCooldowns = <<>> /\ cooldowns = <<>> /\ hist = <<>>
  /\ tasks = <<>>

\* @Args([...]) @Command({name: 'cmd'}) method() {}: decorators apply bottom-up
DeclareCall ==
  /\ query.stage = "new"
  /\ registry' = Args(Command(registry, "method", [name |-> "cmd"]), "method", query.defs)
  /\ query' = [query EXCEPT !.stage = "registered"]
  /\ UNCHANGED <<answer, applied, clockVars, tasks, voiceLocks, queues>>

\* parseArgs(args, metadata.args) for the metadata the registry resolves
ParseCall ==
  /\ query.stage = "registered"
  /\ get(registry, "cmd") # Undefined
  /\ answer' = parseArgs(query.tokens, registry.objects[get(registry, "cmd")].args)
  /\ query' = [query EXCEPT !.stage = "parsed"]
  /\ UNCHANGED <<registry, applied, clockVars, tasks, voiceLocks, queues>>

ArgNext ==
  \/ DeclareCall
  \/ ParseCall

ArgSpec == ArgInit /\ [][ArgNext]_vars

(***************************************************************************)
(* Claims about argument definitions and parsing (ArgSpec).                *)
(***************************************************************************)
Declared == "stage" \in DOMAIN query /\ query.stage # "new"
Parsed == "stage" \in DOMAIN query /\ query.stage = "parsed"
RestNotLast(defs) == \E k \in 1..(Len(defs) - 1) : defs[k].rest

\* C17: a command with a rest argument that is not its last definition is
\* rejected when it is registered: the registry does not resolve it.
C17_RestNotLastRejected ==
  (Declared /\ RestNotLast(query.defs)) => get(registry, "cmd") = Undefined

\* nor is it rejected when its arguments are parsed
C17_RestNotLastFailsLater ==
  (Parsed /\ RestNotLast(query.defs)) => ~answer.ok

MissingError == ~answer.ok /\ answer.error = "Missing required argument"
\* the definition at position k has a token at position k
HasToken(k) == k <= Len(query.tokens)
NeedsToken(k) ==
  query.defs[k].required /\ ~query.defs[k].rest /\ ~HasToken(k)
\* the parser gets as far as definition k: no rest definition before it,
\* and every token before it converts to the type of its definition
Reaches(k) ==
  \A j \in 1..(k - 1) :
    /\ ~query.defs[j].rest
    /\ HasToken(j) => ParseOne(query.defs[j], query.tokens[j]).ok
PositionalResult ==
  \A k \in 1..Len(query.defs) :
    (Reaches(k) /\ ~query.defs[k].rest) =>
      IF HasToken(k)
      THEN /\ query.defs[k].name \in DOMAIN answer.parsed
           /\ answer.parsed[query.defs[k].name]
                = ParseOne(query.defs[k], query.tokens[k]).value
      ELSE query.defs[k].name \notin DOMAIN answer.parsed

\* C18 as stated: parsing fails with a missing-argument error exactly when
\* some required non-rest definition has no token at its position; a
\* successful parse gives the definition at position k the token at
\* position k and omits the key of an optional definition without token.
C18_AsStated ==
  Parsed =>
    /\ MissingError <=> \E k \in 1..Len(query.defs) : NeedsToken(k)
    /\ answer.ok => PositionalResult

\* C18: parsing goes through the definitions in order, definition k reading
\* token k, and stops at the first rest definition or the first failure. It
\* fails with a missing-argument error exactly when it reaches a required
\* non-rest definition that has no token at its position, naming the first
\* such definition; a successful parse holds for every definition it went
\* through the converted token at that position, and no key for an optional
\* definition without token.
C18_PositionalParse ==
  Parsed =>
    /\ MissingError <=> \E k \in 1..Len(query.defs) : NeedsToken(k) /\ Reaches(k)
    /\ MissingError =>
         \E k \in 1..Len(query.defs) :
           NeedsToken(k) /\ Reaches(k) /\ answer.arg = query.defs[k].name
    /\ answer.ok => PositionalResult

\* the second of two definitions is required and has no token
C18_Witness ==
  /\ Parsed
  /\ Len(query.defs) = 2 /\ Len(query.tokens) = 1
  /\ MissingError /\ answer.arg = "second"

\* an optional definition without token leaves no key
C18_WitnessOmitted ==
  /\ Parsed /\ answer.ok
  /\ Len(query.defs) = 2 /\ Len(query.tokens) = 1
  /\ ~query.defs[1].rest /\ ~query.defs[2].rest
  /\ DOMAIN answer.parsed = {"count"}

\* a base-10 integer: an optional sign and one or more decimal digits
IsDecimalInteger(token) ==
  LET digits == IF token # <<>> /\ token[1] \in {"+", "-"} THEN Tail(token) ELSE token
  IN digits # <<>> /\ \A i \in 1..Len(digits) : digits[i] \in Digits
RECURSIVE DecimalValue(_)
DecimalValue(token) ==
  IF token = <<>> THEN 0
  ELSE IF token[1] = "-" THEN -DecimalValue(Tail(token))
  ELSE IF token[1] = "+" THEN DecimalValue(Tail(token))
  ELSE DecimalValue(SubSeq(token, 1, Len(token) - 1)) * 10 + DigitValue[token[Len(token)]]
IntegerFirst ==
  /\ Parsed
  /\ Len(query.defs) >= 1 /\ Len(query.tokens) >= 1
  /\ query.defs[1].type = "number" /\ ~query.defs[1].rest

\* C19: a token for an integer argument that is a base-10 integer gives its
\* value (["42"] gives count 42), and every other token (["abc"]) makes the
\* parse fail with the invalid-argument error.
C19_IntegerTokens ==
  IntegerFirst =>
    IF IsDecimalInteger(query.tokens[1])
    THEN ~(~answer.ok /\ answer.arg = "count")
         /\ answer.ok => answer.parsed["count"] = [num |-> DecimalValue(query.tokens[1])]
    ELSE ~answer.ok /\ answer.arg = "count" /\ answer.error = "must be a number"

\* the two examples of the statement do behave as stated
C19_Examples ==
  (IntegerFirst /\ Len(query.defs) = 1) =>
    /\ query.tokens[1] = <<"4", "2">> => (answer.ok /\ answer.parsed = ("count" :> [num |-> 42]))
    /\ query.tokens[1] = <<"a", "b", "c">> => (~answer.ok /\ answer.error = "must be a number")

(***************************************************************************)
(* Claims about register and get (RegSpec).                                *)
(***************************************************************************)
\* the last step called register with the metadata object query.registered
JustRegistered == "registered" \in DOMAIN query /\ query.at = applied
RegisteredSpec == registry.objects[query.registered]

\* C20: right after register(spec), the canonical name of spec resolves to
\* spec, whatever was stored under that name or bound to it as an alias
\* before; every alias of spec is bound to that name, whatever it was bound
\* to before; and a token resolves through the names first: an alias of
\* spec resolves to spec unless it is the canonical name of a stored spec,
\* which it then resolves to.
C20_RegisterAndResolve ==
  JustRegistered =>
    /\ registry.commands[RegisteredSpec.name] = query.registered
    /\ get(registry, RegisteredSpec.name) = query.registered
    /\ \A a \in Range(RegisteredSpec.aliases) :
         /\ registry.aliases[a] = RegisteredSpec.name
         /\ get(registry, a) =
              IF a \in DOMAIN registry.commands THEN registry.commands[a]
              ELSE query.registered

\* a spec registered under a name that an earlier spec had as its name, and
\* with an alias that was bound to another name
C20_Witness ==
  /\ JustRegistered
  /\ query.registered = "o1"
  /\ RegisteredSpec.name = "ban" /\ RegisteredSpec.aliases = <<"b">>
  /\ \E f \in Functions : f \in DOMAIN registry.objects /\ registry.objects[f].name = "ban"
  /\ "kick" \in DOMAIN registry.commands
  /\ get(registry, "b") = "o1" /\ get(registry, "ban") = "o1"

\* the name of the registered spec is an alias bound to another name
C20_WitnessNameFirst ==
  /\ JustRegistered
  /\ RegisteredSpec.name \in DOMAIN registry.aliases
  /\ registry.aliases[RegisteredSpec.name] # RegisteredSpec.name
  /\ registry.aliases[RegisteredSpec.name] \in DOMAIN registry.commands

(***************************************************************************)
(* The bot owner pruning: the two messages of a prune, the preview and the *)
(* confirmation, with the clock moving by half the prune cooldown.         *)
(***************************************************************************)
PrunePreview == <<"!","p","r","u","n","e"," ","7">>
PruneConfirm == <<"!","p","r","u","n","e"," ","7"," ","-","-","c","o","n","f","i","r","m">>
PruneInbound ==
  { Message("u0", FALSE, FALSE, FALSE, PrunePreview),
    Message("u0", FALSE, FALSE, FALSE, PruneConfirm),
    Message("u2", FALSE, FALSE, FALSE, PruneConfirm) }

\* half of COMMAND_COOLDOWNS.prune
HalfPruneMs == 30000
\* most such steps of the clock
MaxHalves == 2

PruneElapse ==
  /\ now < StartNow + MaxHalves * HalfPruneMs
  /\ now' = now + HalfPruneMs
  /\ UNCHANGED <<callVars, regVars, commandCooldowns, cooldowns, hist, tasks>>

handlePrune == Receive(PruneInbound)

PruneNext ==
  \/ PruneElapse
  \/ handlePrune
  \/ Complete

PruneSpec == Init /\ [][PruneNext]_vars

(***************************************************************************)
(* Claims about the prune command (PruneSpec).                             *)
(***************************************************************************)
Called(task, name) ==
  \E k \in 1..Len(task.trace) : task.trace[k].op = "call" /\ task.trace[k].name = name
OwnerSends(task, content) ==
  task.entry = "handleMessage" /\ task.input.author = BOT_OWNER_ID
    /\ task.input.content = content
\* nothing the dispatch attempted has failed
Clean(task) == \A k \in 1..Len(task.trace) : task.trace[k].ok
PreviewReplied(task) ==
  /\ ~Called(task, "guild.members.prune")
  /\ Len(Replies(task)) = 1 /\ Replies(task)[1].tag = "prune-preview"

\* C21: when nothing fails, the bot owner's !prune 7 replies with a preview
\* and prunes nothing, and the owner's next message, !prune 7 --confirm,
\* calls the prune.
C21_PreviewThenConfirm ==
  \A i \in 1..Len(tasks) :
    (Done(tasks[i]) /\ OwnerSends(tasks[i], PrunePreview) /\ tasks[i].route = "execute"
       /\ Clean(tasks[i])) =>
      /\ PreviewReplied(tasks[i])
      /\ (i < Len(tasks) /\ Done(tasks[i + 1]) /\ OwnerSends(tasks[i + 1], PruneConfirm)
            /\ Clean(tasks[i + 1]))
           => Called(tasks[i + 1], "guild.members.prune")

\* the preview itself is as stated
C21_PreviewOnly ==
  \A i \in 1..Len(tasks) :
    (Done(tasks[i]) /\ OwnerSends(tasks[i], PrunePreview) /\ tasks[i].route = "execute"
       /\ Clean(tasks[i])) =>
      PreviewReplied(tasks[i])

\* the confirmation is throttled for the minute after the preview
C21_ConfirmThrottled ==
  /\ Len(tasks) = 2 /\ Done(tasks[1]) /\ Done(tasks[2])
  /\ OwnerSends(tasks[1], PrunePreview) /\ PreviewReplied(tasks[1])
  /\ OwnerSends(tasks[2], PruneConfirm) /\ tasks[2].route = "throttled"
  /\ tasks[2].cd.at - tasks[1].cd.at = HalfPruneMs

(***************************************************************************)
(* Claims about the messages the dispatcher passes over (Spec).            *)
(***************************************************************************)
\* from a bot, or without prefix and neither a direct message nor a mention
PassedOver(message) ==
  \/ message.bot
  \/ ~startsWith(message.content, PREFIX) /\ ~message.dm /\ ~message.mentionsBot
Untouched(task) == Done(task) /\ task.trace = <<>> /\ task.outcome = "returned"

\* C22: the call of handleMessage for a message from a bot, or for one that
\* has no prefix and is neither a direct message nor a mention, returns at
\* once and leaves both cooldown stores as they were; no reply and no
\* handler ever comes of it.
C22_PassedOverDoesNothing ==
  [][ /\ (Len(tasks') = Len(tasks) + 1 /\ tasks'[Len(tasks')].entry = "handleMessage"
           /\ PassedOver(tasks'[Len(tasks')].input))
          => /\ commandCooldowns' = commandCooldowns
             /\ cooldowns' = cooldowns
             /\ Untouched(tasks'[Len(tasks')])
      /\ \A i \in 1..Len(tasks) :
           (tasks[i].entry = "handleMessage" /\ PassedOver(tasks[i].input))
             => Untouched(tasks'[i]) ]_vars

\* a bot's !ban and a plain hello have both been passed over
C22_Witness ==
  /\ Len(tasks) = 2
  /\ tasks[1].input.bot /\ startsWith(tasks[1].input.content, PREFIX)
  /\ Untouched(tasks[1])
  /\ ~tasks[2].input.bot /\ PassedOver(tasks[2].input) /\ Untouched(tasks[2])

(***************************************************************************)
(* Claims about the error text of replies (Spec).                          *)
(***************************************************************************)
\* what sanitizeErrorMessage makes of the exceptions that can be thrown
SanitizedTexts ==
  {sanitizeErrorMessage([isError |-> TRUE, message |-> ErrorMessages[class]]) :
     class \in DOMAIN ErrorMessages}

\* C23: the text a reply takes from an exception is the output of
\* sanitizeErrorMessage; a reply with fixed wording takes none.
C23_OnlySanitizedErrorText ==
  \A i \in 1..Len(tasks) : \A k \in 1..Len(tasks[i].trace) :
    tasks[i].trace[k].op = "reply" =>
      tasks[i].trace[k].detail \in {<<>>} \cup SanitizedTexts

\* a direct message whose AI call failed is answered with the exception's
\* own message
C23_RawTextShown ==
  \E i \in 1..Len(tasks) : \E k \in 1..Len(tasks[i].trace) :
    /\ tasks[i].route = "mention"
    /\ tasks[i].trace[k].tag = "mention-error" /\ tasks[i].trace[k].ok
    /\ tasks[i].trace[k].detail = ErrorMessages["collaborator"]
    /\ tasks[i].trace[k].detail \notin SanitizedTexts

(***************************************************************************)
(* Voice priority (part_002 15-107) and the voice cases of executeCommand  *)
(* (prefix-handler.ts 1779-1905, 2053-2103).  One guild; the creator is    *)
(* process.env.BOT_CREATOR_ID.                                             *)
(***************************************************************************)
BOT_CREATOR_ID == "u0"
GuildId == "g1"
\* message.member?.voice?.channelId of the creator is set
CreatorInVoice == TRUE

\* isCreator, lockVoice and unlockVoice for a process whose
\* process.env.BOT_CREATOR_ID is creatorId (getCreatorId reads it at each call)
isCreatorOf(creatorId, userId) == creatorId \notin {Unset, ""} /\ userId = creatorId

\* a lock that does not ask who calls
lockVoiceOf_Unchecked(creatorId, locks, guildId, userId) ==
  [ok |-> TRUE, locks |-> locks \cup {guildId}]

lockVoiceOf(creatorId, locks, guildId, userId) ==
  IF ~isCreatorOf(creatorId, userId) THEN [ok |-> FALSE, locks |-> locks]
  ELSE [ok |-> TRUE, locks |-> locks \cup {guildId}]

unlockVoiceOf(creatorId, locks, guildId, userId) ==
  IF ~isCreatorOf(creatorId, userId) THEN [ok |-> FALSE, locks |-> locks]
  ELSE [ok |-> TRUE, locks |-> locks \ {guildId}]

isCreator(userId) == isCreatorOf(BOT_CREATOR_ID, userId)

lockVoice(locks, guildId, userId) ==
  lockVoiceOf(BOT_CREATOR_ID, locks, guildId, userId)

unlockVoice(locks, guildId, userId) ==
  unlockVoiceOf(BOT_CREATOR_ID, locks, guildId, userId)

canUseVoiceCommand(locks, guildId, userId) ==
  IF guildId \notin locks THEN TRUE
  ELSE isCreator(userId)

VoiceCases == {"lockvoice", "unlockvoice", "say", "leave", "voiceask"}
LockedReply == Reply("voice-locked", "Voice commands are currently locked.", 0, <<>>)

\* executeCommand for the voice cases: what it does under plan, and the
\* locks it leaves
executeVoiceCommand(message, command, args, locks, plan) ==
  LET run(script) == Run(<<Enter(command)>> \o script, plan, EmptyAcc)
      allowed     == canUseVoiceCommand(locks, GuildId, message.author)
  IN CASE command = "lockvoice" ->
            IF ~isCreator(message.author)
            THEN [acc |-> run(<<Reply("creator-only", "Only the creator can lock voice commands.", 0, <<>>)>>),
                  locks |-> locks]
            ELSE [acc |-> run(<<Reply("locked", "Voice commands locked!", 0, <<>>)>>
                              \o (IF CreatorInVoice
                                  THEN <<Call("joinVoiceChannel", "collaborator"),
                                         Reply("joined", "Joined your voice channel!", 0, <<>>)>>
                                  ELSE <<>>)),
                  locks |-> lockVoice(locks, GuildId, message.author).locks]
       [] command = "unlockvoice" ->
            IF ~isCreator(message.author)
            THEN [acc |-> run(<<Reply("creator-only", "Only the creator can unlock voice commands.", 0, <<>>)>>),
                  locks |-> locks]
            ELSE [acc |-> run(<<Reply("unlocked", "Voice commands unlocked!", 0, <<>>)>>),
                  locks |-> unlockVoice(locks, GuildId, message.author).locks]
       [] command = "leave" ->
            [acc |-> IF ~allowed THEN run(<<LockedReply>>)
                     ELSE run(<<Call("leaveVoiceChannel", "collaborator"),
                                Reply("result", "", 0, <<>>)>>),
             locks |-> locks]
       [] command = "say" ->
            [acc |-> IF ~allowed THEN run(<<LockedReply>>)
                     ELSE IF trim(join(args)) = <<>>
                     THEN run(<<Reply("usage", "Usage: !say <text>", 0, <<>>)>>)
                     ELSE run(<<Call("SecurityUtils.containsBlockedContent", "none"),
                                Call("speakText", "collaborator"),
                                Reply("result", "", 0, <<>>)>>),
             locks |-> locks]
       [] command = "voiceask" ->
            [acc |-> IF trim(join(args)) = <<>>
                     THEN run(<<Reply("usage", "Usage: !voice <question>", 0, <<>>)>>)
                     ELSE LET a0 == run(<<Call("sendTyping", "channel")>>)
                              a1 == Run(<<Call("aiService.chat", "collaborator"),
                                          Reply("ai-response", "", 0, <<>>),
                                          CaughtCall("speakText", "collaborator")>>,
                                        plan, a0)
                          IN IF a0.threw THEN a0
                             ELSE IF a1.threw
                             THEN Run(<<Reply("ai-error", "AI error: ", 0, a1.error.message)>>,
                                      plan, Caught(a1))
                             ELSE a1,
             locks |-> locks]

\* the messages of the voice scenario: the creator locks and unlocks, u2
\* uses the voice commands and mentions the bot
VoiceInbound ==
  { Message("u0", FALSE, FALSE, FALSE, <<"!","l","o","c","k","v","o","i","c","e">>),
    Message("u0", FALSE, FALSE, FALSE, <<"!","u","n","l","o","c","k","v","o","i","c","e">>),
    Message("u2", FALSE, FALSE, FALSE, <<"!","s","a","y"," ","h","i">>),
    Message("u2", FALSE, FALSE, FALSE, <<"!","l","e","a","v","e">>),
    Message("u2", FALSE, FALSE, FALSE, <<"!","v","o","i","c","e","a","s","k"," ","h","i">>),
    Message("u2", FALSE, FALSE, FALSE, <<"!","u","n","l","o","c","k","v","o","i","c","e">>),
    Message("u2", FALSE, FALSE, TRUE, <<"h","i">>) }

handleVoice == Receive(VoiceInbound)

\* a suspended dispatch runs to its end
VoiceComplete ==
  \E i \in 1..Len(tasks), plan \in Plans :
    /\ tasks[i].pc = "running"
    /\ IF tasks[i].route = "execute" /\ tasks[i].command \in VoiceCases
       THEN LET r == executeVoiceCommand(tasks[i].input, tasks[i].command, tasks[i].args,
                                         voiceLocks, plan)
            IN /\ tasks' = [tasks EXCEPT ![i] = Settled(tasks[i], handleMessageCatch(r.acc, plan))]
               /\ voiceLocks' = r.locks
       ELSE /\ tasks' = [tasks EXCEPT ![i] = Finish(tasks[i], registry, plan)]
            /\ voiceLocks' = voiceLocks
    /\ UNCHANGED <<callVars, registry, applied, clockVars, queues>>

VoiceNext ==
  \/ handleVoice
  \/ VoiceComplete

VoiceSpec == Init /\ [][VoiceNext]_vars

(***************************************************************************)
(* The lock functions alone (part_002 16-69): several guilds, several      *)
(* callers, and every setting of BOT_CREATOR_ID.  voiceLocks starts as the *)
(* empty map of the module; answer holds the last call and its result.     *)
(***************************************************************************)
LockGuilds   == {"g1", "g2", "g3"}
LockCallers  == {"u0", "u1", "u2"}
CreatorIds   == {Unset, "", "u0", "u1"}

LockInit ==
  /\ query \in [creatorId : CreatorIds]
  /\ answer = NoAnswer
  /\ voiceLocks = {}
  /\ queues = <<>>
  /\ registry = NoAnswer
  /\ applied = 0
  /\ now = 0 /\ commandCooldowns = <<>> /\ cooldowns = <<>> /\ hist = <<>>
  /\ tasks = <<>>

LockVoiceCall ==
  \E guildId \in LockGuilds, userId \in LockCallers :
    LET r == lockVoiceOf(query.creatorId, voiceLocks, guildId, userId)
    IN /\ voiceLocks' = r.locks
       /\ answer' = [op |-> "lockVoice", guildId |-> guildId, userId |-> userId,
                     ok |-> r.ok]
       /\ UNCHANGED <<query, registry, applied, clockVars, tasks, queues>>

UnlockVoiceCall ==
  \E guildId \in LockGuilds, userId \in LockCallers :
    LET r == unlockVoiceOf(query.creatorId, voiceLocks, guildId, userId)
    IN /\ voiceLocks' = r.locks
       /\ answer' = [op |-> "unlockVoice", guildId |-> guildId, userId |-> userId,
                     ok |-> r.ok]
       /\ UNCHANGED <<query, registry, applied, clockVars, tasks, queues>>

LockNext ==
  \/ LockVoiceCall
  \/ UnlockVoiceCall

LockSpec == LockInit /\ [][LockNext]_vars

(***************************************************************************)
(* MusicService (music-service.ts 39-529), one guild.  A GuildQueue keeps  *)
(* tracks, currentTrack and loop; status is where its player stands:       *)
(* "idle", "streaming" while playNext awaits play.stream(track.url), and   *)
(* "playing" after player.play(resource).  A track is its url;             *)
(* query.streamable holds the urls for which play.stream resolves, and     *)
(* query.plays counts the calls of play.  tasks holds the pending          *)
(* setTimeout callbacks of playNext in the order they were scheduled, and  *)
(* answer the last call of play.stream.                                    *)
(***************************************************************************)
\* most calls of play in one run
MaxPlays == 3

TrackUrls == {"a", "b"}
\* queue.currentTrack = null
NoTrack == "<null>"
InactivityTimer(guildId) == [entry |-> "inactivity", guildId |-> guildId]

\* createQueue (56-85): the record; the Idle and error listeners are the
\* actions PlayerIdle and StreamSettles below
createQueue ==
  [tracks |-> <<>>, currentTrack |-> NoTrack, loop |-> FALSE, status |-> "idle"]

getQueue(qs, guildId) == qs[guildId]
hasQueue(qs, guildId) == guildId \in DOMAIN qs

\* playNext (265-308) up to its await: the queues and the timers it leaves,
\* and whether it has called play.stream
playNext(qs, timers, guildId) ==
  IF ~hasQueue(qs, guildId)
  THEN [queues |-> qs, timers |-> timers, streams |-> FALSE]
  ELSE
    LET queue  == getQueue(qs, guildId)
        \* if (queue.loop && queue.currentTrack) queue.tracks.push(currentTrack)
        pushed == IF queue.loop /\ queue.currentTrack # NoTrack
                  THEN Append(queue.tracks, queue.currentTrack)
                  ELSE queue.tracks
    IN \* const track = queue.tracks.shift(); if (!track) ...
       IF pushed = <<>>
       THEN [queues |-> [qs EXCEPT ![guildId] =
                           [queue EXCEPT !.tracks = <<>>, !.currentTrack = NoTrack,
                                         !.status = "idle"]],
             timers |-> Append(timers, InactivityTimer(guildId)),
             streams |-> FALSE]
       ELSE [queues |-> [qs EXCEPT ![guildId] =
                           [queue EXCEPT !.tracks = Tail(pushed),
                                         !.currentTrack = Head(pushed),
                                         !.status = "streaming"]],
             timers |-> timers,
             streams |-> TRUE]

\* answer after a call of play.stream for url: the url, and a bit that
\* alternates from one call to the next
Streamed(last, url) ==
  [url |-> url, bit |-> IF last = NoAnswer THEN FALSE ELSE ~last.bit]

\* the three variables after r, the result of playNext
AfterPlayNext(r) ==
  /\ queues' = r.queues
  /\ tasks' = r.timers
  /\ answer' = IF r.streams THEN Streamed(answer, r.queues[GuildId].currentTrack)
               ELSE answer

MusicInit ==
  /\ query \in [streamable : SUBSET TrackUrls, plays : {0}]
  /\ queues = <<>>
  /\ tasks = <<>>
  /\ answer = NoAnswer
  /\ registry = NoAnswer
  /\ applied = 0
  /\ voiceLocks = {}
  /\ now = 0 /\ commandCooldowns = <<>> /\ cooldowns = <<>> /\ hist = <<>>

\* play (181-260) for a member in a voice channel whose search found track
MusicPlay ==
  \E track \in TrackUrls :
    /\ query.plays < MaxPlays
    /\ query' = [query EXCEPT !.plays = @ + 1]
    /\ LET qs0 == IF hasQueue(queues, GuildId) THEN queues
                  ELSE (GuildId :> createQueue) @@ queues
           qs1 == [qs0 EXCEPT ![GuildId].tracks = Append(@, track)]
       IN AfterPlayNext(IF qs1[GuildId].currentTrack = NoTrack
                        THEN playNext(qs1, tasks, GuildId)
                        ELSE [queues |-> qs1, timers |-> tasks, streams |-> FALSE])
    /\ UNCHANGED <<registry, applied, voiceLocks, clockVars>>

\* the promise of play.stream settles: player.play(resource), or the catch
\* block calls playNext again
StreamSettles ==
  /\ hasQueue(queues, GuildId)
  /\ queues[GuildId].status = "streaming"
  /\ IF queues[GuildId].currentTrack \in query.streamable
     THEN /\ queues' = [queues EXCEPT ![GuildId].status = "playing"]
          /\ UNCHANGED <<tasks, answer>>
     ELSE AfterPlayNext(playNext(queues, tasks, GuildId))
  /\ UNCHANGED <<query, registry, applied, voiceLocks, clockVars>>

\* player.on(AudioPlayerStatus.Idle): the resource has ended
PlayerIdle ==
  /\ hasQueue(queues, GuildId)
  /\ queues[GuildId].status = "playing"
  /\ AfterPlayNext(playNext(queues, tasks, GuildId))
  /\ UNCHANGED <<query, registry, applied, voiceLocks, clockVars>>

\* toggleLoop (401-412)
toggleLoop ==
  /\ hasQueue(queues, GuildId)
  /\ queues' = [queues EXCEPT ![GuildId].loop = ~@]
  /\ UNCHANGED <<callVars, registry, applied, voiceLocks, clockVars, tasks>>

\* the setTimeout callback of playNext (279-284), then destroy (497-508)
InactivityTimeout ==
  /\ tasks # <<>>
  /\ tasks' = Tail(tasks)
  /\ LET guildId == Head(tasks).guildId
     IN IF /\ hasQueue(queues, guildId)
           /\ queues[guildId].currentTrack = NoTrack
           /\ queues[guildId].tracks = <<>>
        THEN queues' = [g \in DOMAIN queues \ {guildId} |-> queues[g]]
        ELSE queues' = queues
  /\ UNCHANGED <<callVars, registry, applied, voiceLocks, clockVars>>

MusicNext ==
  \/ MusicPlay
  \/ StreamSettles
  \/ PlayerIdle
  \/ toggleLoop
  \/ InactivityTimeout

\* a pending promise of play.stream settles, and a resource that plays ends
MusicSpec ==
  /\ MusicInit /\ [][MusicNext]_vars
  /\ WF_vars(StreamSettles) /\ WF_vars(PlayerIdle)

(***************************************************************************)
(* Claims about the voice lock (VoiceSpec).                                *)
(***************************************************************************)
VoiceControls == {"joinVoiceChannel", "leaveVoiceChannel", "speakText"}
ControlsVoice(task) ==
  \E k \in 1..Len(task.trace) :
    task.trace[k].op = "call" /\ task.trace[k].name \in VoiceControls /\ task.trace[k].ok

\* C24: while the guild's voice is locked, no dispatch of a message from
\* someone other than the creator makes the bot join, leave or speak.
C24_LockedVoiceCreatorOnly ==
  [][ \A i \in 1..Len(tasks) :
        (/\ GuildId \in voiceLocks
         /\ tasks[i].pc = "running" /\ tasks'[i].pc = "done"
         /\ ~isCreator(tasks[i].input.author))
          => ~ControlsVoice(tasks'[i]) ]_vars

\* the guarded commands do refuse: under the lock, !say and !leave of
\* someone else control nothing
C24_GuardedCasesRefuse ==
  [][ \A i \in 1..Len(tasks) :
        (/\ GuildId \in voiceLocks
         /\ tasks[i].pc = "running" /\ tasks'[i].pc = "done"
         /\ ~isCreator(tasks[i].input.author)
         /\ tasks[i].command \in {"say", "leave"})
          => ~ControlsVoice(tasks'[i]) ]_vars

\* u2's !voiceask has made the bot speak in the locked guild
C24_SpokeWhileLocked ==
  /\ GuildId \in voiceLocks
  /\ \E i \in 1..Len(tasks) :
       /\ i > 1 /\ tasks[1].command = "lockvoice" /\ Done(tasks[1])
       /\ Done(tasks[i]) /\ tasks[i].input.author = "u2"
       /\ tasks[i].command = "voiceask" /\ ControlsVoice(tasks[i])

(***************************************************************************)
(* Claims about the capability lists and the legacy list (PermSpec).       *)
(***************************************************************************)
\* C25: a caller other than the bot owner whom checkPermission allows for a
\* command with an entry in COMMAND_PERMISSIONS holds every permission of
\* the entry.
C25_ListedPermissionsRequired ==
  (Answered /\ HasCapabilityList /\ ~QueryIsBotOwner /\ answer.allowed) =>
    \A perm \in ListedCapabilities : Holds(perm)

\* ban is allowed to a moderator who may manage messages but not ban
C25_BanWithoutBanMembers ==
  /\ Answered /\ query.rules = SourceRules /\ query.command = "ban"
  /\ ~QueryIsBotOwner /\ answer.allowed
  /\ ~Holds("BanMembers")

\* C26: checkPermission denies a command of ADMIN_ONLY_COMMANDS to every
\* caller who is neither the bot owner nor a holder of Administrator.
C26_LegacyListNeedsAdministrator ==
  (Answered /\ query.command \in query.rules.adminOnly
     /\ ~QueryIsBotOwner /\ ~Holds("Administrator")) => ~answer.allowed

\* widgetsettings is allowed on ManageGuild alone
C26_WidgetSettingsWithoutAdministrator ==
  /\ Answered /\ query.rules = SourceRules /\ query.command = "widgetsettings"
  /\ ~QueryIsBotOwner /\ ~Holds("Administrator") /\ Holds("ManageGuild")
  /\ answer.allowed

(***************************************************************************)
(* Claims about direct messages and mentions (Spec).                       *)
(***************************************************************************)
\* a message handleMessage hands to handleMention
ToMention(message) ==
  ~message.bot /\ (message.dm \/ (message.mentionsBot /\ ~startsWith(message.content, PREFIX)))
MentionKey == "ai_mention"
\* every entry but (ai_mention, user) is the same in the two stores
OnlyMentionEntry(before, after, user) ==
  \A command \in DOMAIN before \cup DOMAIN after :
    \A u \in (IF command \in DOMAIN before THEN DOMAIN before[command] ELSE {})
              \cup (IF command \in DOMAIN after THEN DOMAIN after[command] ELSE {}) :
      (command # MentionKey \/ u # user) =>
        EntryOf(before, command, u) = EntryOf(after, command, u)

\* C27: the call of handleMessage for a direct message or a mention of the
\* bot evaluates no permission tier and touches no cooldown entry but
\* (ai_mention, author); the dispatch enters no command handler, and when
\* its question is not empty and not throttled it calls the AI chat.
C27_MentionBypassesStages ==
  [][ /\ (Len(tasks') = Len(tasks) + 1 /\ tasks'[Len(tasks')].entry = "handleMessage"
           /\ ToMention(tasks'[Len(tasks')].input))
          => /\ ~tasks'[Len(tasks')].perm.checked
             /\ tasks'[Len(tasks')].route \in {"mention", "mention-empty", "mention-throttled"}
             /\ tasks'[Len(tasks')].cd.checked => tasks'[Len(tasks')].cd.command = MentionKey
             /\ OnlyMentionEntry(commandCooldowns, commandCooldowns',
                                 tasks'[Len(tasks')].input.author)
             /\ cooldowns' = cooldowns
      /\ \A i \in 1..Len(tasks) :
           (tasks[i].entry = "handleMessage" /\ ToMention(tasks[i].input)
              /\ tasks[i].pc = "running" /\ tasks'[i].pc = "done")
             => /\ ~HandlerInvoked(tasks'[i])
                /\ ~tasks'[i].perm.checked
                /\ commandCooldowns' = commandCooldowns /\ cooldowns' = cooldowns
                /\ (tasks[i].route = "mention" /\ tasks'[i].trace[1].ok)
                     => Called(tasks'[i], "aiService.chat") ]_vars

\* u2's mention was answered by the AI chat after u2's !foo had armed the
\* entry of foo, which is still as it was
C27_Witness ==
  /\ Len(tasks) = 2 /\ Done(tasks[1]) /\ Done(tasks[2])
  /\ tasks[1].command = "foo" /\ tasks[1].input.author = "u2"
  /\ tasks[2].input.mentionsBot /\ tasks[2].route = "mention"
  /\ Called(tasks[2], "aiService.chat")
  /\ EntryOf(commandCooldowns, "foo", "u2") = tasks[1].cd.at
  /\ EntryOf(commandCooldowns, MentionKey, "u2") = tasks[2].cd.at

(***************************************************************************)
(* The bulkdelete case of executeCommand (prefix-handler.ts 1451-1479):    *)
(* `!bulkdelete <count>` and `!purge <count>` sent by a moderator, in a    *)
(* channel whose newest messages may be older than 14 days.                *)
(***************************************************************************)
\* most messages in the channel of the command
MaxChannel == 3

\* a channel: for each message, newest first, whether
\* SecurityUtils.isMessageTooOldForBulkDelete holds of it
Channels == UNION {[1..n -> BOOLEAN] : n \in 0..MaxChannel}

\* await channel.send(...)
Send(tag, text, n) == Step("reply", "channel.send", "channel", FALSE, tag, text, n, <<>>)
\* a call that carries a number: the limit of a fetch, the ids of a deletion
CallN(name, class, n) == [Call(name, class) EXCEPT !.n = n]

SmallerOf(a, b) == IF a < b THEN a ELSE b

\* the body of case 'bulkdelete' / 'purge'; the deletion of the bot's own
\* notice five seconds later is not part of the dispatch
bulkDelete(args, channel) ==
  LET count == parseIntOr(argAt(args, 1), 10)
      size  == SmallerOf(count, Len(channel))
      valid == Cardinality({k \in 1..size : ~channel[k]})
  IN IF count < 1 \/ count > 100
     THEN <<Enter("bulkdelete"),
            Reply("usage", "Usage: !bulkdelete <count> (1-100)", 0, <<>>)>>
     ELSE <<Enter("bulkdelete"), CaughtCall("message.delete", "channel"),
            CallN("channel.messages.fetch", "channel", count)>>
          \o (IF valid = 0
              THEN <<Send("too-old", "All messages are older than 14 days and cannot be bulk deleted.", 0)>>
              ELSE <<CallN("bulkDeleteMessages", "collaborator", valid),
                     Send("result", "", size - valid)>>)

BulkCases == {"bulkdelete", "purge"}

\* the counts a moderator supplies
BulkInbound ==
  { Message("u1", FALSE, FALSE, FALSE, <<"!","b","u","l","k","d","e","l","e","t","e"," ","2">>),
    Message("u1", FALSE, FALSE, FALSE, <<"!","p","u","r","g","e"," ","2">>),
    Message("u1", FALSE, FALSE, FALSE, <<"!","b","u","l","k","d","e","l","e","t","e"," ","0">>),
    Message("u1", FALSE, FALSE, FALSE, <<"!","b","u","l","k","d","e","l","e","t","e"," ","1","0","1">>),
    Message("u1", FALSE, FALSE, FALSE, <<"!","p","u","r","g","e"," ","1",".","5">>),
    Message("u1", FALSE, FALSE, FALSE, <<"!","b","u","l","k","d","e","l","e","t","e"," ","a","b","c">>) }

handleBulk == Receive(BulkInbound)

\* a suspended dispatch runs to its end, in a channel of any content
BulkComplete ==
  /\ \E i \in 1..Len(tasks), plan \in Plans, channel \in Channels :
       /\ tasks[i].pc = "running"
       /\ tasks' = [tasks EXCEPT ![i] =
            IF tasks[i].route = "execute" /\ tasks[i].command \in BulkCases
            THEN Settled(tasks[i],
                         handleMessageCatch(Run(bulkDelete(tasks[i].args, channel), plan,
                                                EmptyAcc), plan))
            ELSE Finish(tasks[i], registry, plan)]
  /\ UNCHANGED <<callVars, regVars, clockVars>>

BulkNext ==
  \/ Elapse
  \/ handleBulk
  \/ BulkComplete

BulkSpec == Init /\ [][BulkNext]_vars

(***************************************************************************)
(* Claims about the cooldown of a command's tokens (BulkSpec).             *)
(***************************************************************************)
\* dispatch j follows the allowed dispatch i of the same caller, for a token
\* of the same handler, inside the cooldown window of i's command
InsideWindowOf(i, j) ==
  /\ i < j
  /\ tasks[i].cd.checked /\ tasks[i].cd.allowed
  /\ tasks[j].cd.checked
  /\ tasks[j].input.author = tasks[i].input.author
  /\ tasks[j].cd.command \in sameHandler(tasks[i].cd.command)
  /\ tasks[j].cd.at - tasks[i].cd.at < cooldownFor(tasks[i].cd.command)

\* C32: after a caller's allowed invocation under one token, an invocation
\* by the same caller under any token of the same handler inside the
\* command's cooldown window is throttled.
C32_TokensShareCooldown ==
  \A i \in 1..Len(tasks), j \in 1..Len(tasks) :
    InsideWindowOf(i, j) => ~tasks[j].cd.allowed

\* what does hold: the same token is throttled inside its window
C32_SameTokenThrottled ==
  \A i \in 1..Len(tasks), j \in 1..Len(tasks) :
    (InsideWindowOf(i, j) /\ tasks[j].cd.command = tasks[i].cd.command)
      => ~tasks[j].cd.allowed

\* !purge 2 right after the same moderator's allowed !bulkdelete 2 passes the
\* cooldown check and deletes again
C32_PurgeAfterBulkdelete ==
  /\ Len(tasks) = 2
  /\ InsideWindowOf(1, 2)
  /\ tasks[1].cd.command = "bulkdelete" /\ tasks[2].cd.command = "purge"
  /\ tasks[2].cd.at = tasks[1].cd.at
  /\ tasks[2].cd.allowed
  /\ Done(tasks[1]) /\ Done(tasks[2])
  /\ Called(tasks[1], "bulkDeleteMessages") /\ Called(tasks[2], "bulkDeleteMessages")

(***************************************************************************)
(* Claims about the count of bulkdelete (BulkSpec).                        *)
(***************************************************************************)
\* a dispatch of !bulkdelete or !purge that reached the case body
BulkRan(task) ==
  /\ Done(task) /\ task.route = "execute" /\ task.command \in BulkCases
\* the count the caller supplied, as written
Supplied(task) == argAt(task.args, 1)
\* the supplied text is an integer: digits, with or without a sign
IsIntegerText(text) ==
  /\ text # <<>>
  /\ LET digits == IF text[1] \in {"+", "-"} THEN Tail(text) ELSE text
     IN digits # <<>> /\ \A k \in 1..Len(digits) : digits[k] \in Digits
SuppliedValue(task) == parseInt(Supplied(task)).value
\* the number of messages handed to bulkDeleteMessages, 0 when it is not called
DeletedCount(task) ==
  LET calls == {k \in 1..Len(task.trace) : task.trace[k].name = "bulkDeleteMessages"}
  IN IF calls = {} THEN 0 ELSE task.trace[CHOOSE k \in calls : TRUE].n
Fetched(task) == Called(task, "channel.messages.fetch")
UsageReplied(task) ==
  \E k \in 1..Len(task.trace) : task.trace[k].op = "reply" /\ task.trace[k].tag = "usage"

\* C39: !bulkdelete <count> fetches and deletes messages only when the
\* supplied count is an integer from 1 to 100, and then at most that many;
\* a supplied count outside 1..100 gets the usage reply and nothing is
\* fetched or deleted.
C39_CountWithinRange ==
  \A i \in 1..Len(tasks) :
    (BulkRan(tasks[i]) /\ Supplied(tasks[i]) # <<>>) =>
      /\ Fetched(tasks[i]) =>
           /\ IsIntegerText(Supplied(tasks[i]))
           /\ SuppliedValue(tasks[i]) \in 1..100
           /\ DeletedCount(tasks[i]) <= SuppliedValue(tasks[i])
      /\ (IsIntegerText(Supplied(tasks[i])) /\ SuppliedValue(tasks[i]) \notin 1..100) =>
           UsageReplied(tasks[i]) /\ ~Fetched(tasks[i]) /\ DeletedCount(tasks[i]) = 0

\* what does hold: the count the case body computes bounds the fetch and
\* the deletion, and a count above 100 or below 0 gets the usage reply
C39_ParsedCountBounds ==
  \A i \in 1..Len(tasks) :
    BulkRan(tasks[i]) =>
      LET count == parseIntOr(Supplied(tasks[i]), 10)
      IN /\ DeletedCount(tasks[i]) <= count
         /\ Fetched(tasks[i]) => count \in 1..100
         /\ (count < 1 \/ count > 100) =>
              UsageReplied(tasks[i]) /\ ~Fetched(tasks[i])

\* !bulkdelete 0 gets no usage reply and deletes the newest messages
C39_ZeroDeletes ==
  \E i \in 1..Len(tasks) :
    /\ BulkRan(tasks[i])
    /\ IsIntegerText(Supplied(tasks[i])) /\ SuppliedValue(tasks[i]) = 0
    /\ ~UsageReplied(tasks[i])
    /\ DeletedCount(tasks[i]) > 0
    /\ tasks[i].outcome = "returned"

(***************************************************************************)
(* The decorated commands called by every kind of caller: the guild's      *)
(* owner, a moderator and a member without permissions.                    *)
(***************************************************************************)
AuthInvocations ==
  { Invocation(author, commandName, <<TargetMention>>) :
      author \in {"u1", "u2"},
      commandName \in {<<"b","a","n">>, <<"k","i","c","k">>, <<"c","r","e","a","t","e","r","o","l","e">>, <<"e","x","p","o","r","t","c","h","a","t">>} }
    \cup {Invocation("u0", <<"c","r","e","a","t","e","r","o","l","e">>, <<TargetMention>>)}

executeDecorated == Invoke(AuthInvocations)

AuthNext ==
  \/ executeDecorated
  \/ Complete

AuthSpec == Init /\ [][AuthNext]_vars

(***************************************************************************)
(* Claims about the two dispatch paths (AuthSpec).                         *)
(***************************************************************************)
\* a finished dispatch of executePrefixCommand for a registered command
DecoratedDone(task) ==
  task.entry = "executePrefixCommand" /\ task.route # "not-found" /\ Done(task)
\* what checkPermission says of the caller and the command's name
TierDecision(task) ==
  checkPermission(SourceRules, BOT_OWNER_ID,
                  [member |-> memberOf(task.input), authorId |-> task.input.author,
                   guildOwnerId |-> GuildOwnerId],
                  task.command)

\* C33: for every command registered through the decorators and every
\* caller, if checkPermission denies the caller the command then
\* executePrefixCommand does not run the command's handler for that caller.
C33_PathsAgreeOnDenial ==
  \A i \in 1..Len(tasks) :
    (DecoratedDone(tasks[i]) /\ ~TierDecision(tasks[i]).allowed)
      => ~HandlerInvoked(tasks[i])

\* what does hold: the moderation commands and createrole are refused by
\* executePrefixCommand to every caller checkPermission refuses
C33_RestrictedCommandsAgree ==
  \A i \in 1..Len(tasks) :
    (DecoratedDone(tasks[i]) /\ tasks[i].command \in {"ban", "kick", "createrole"}
       /\ ~TierDecision(tasks[i]).allowed)
      => ~HandlerInvoked(tasks[i])

\* exportchat, disabled by default for everyone but the bot owner, runs for
\* a member without any permission
C33_ExportChatRuns ==
  \E i \in 1..Len(tasks) :
    /\ DecoratedDone(tasks[i])
    /\ tasks[i].command = "exportchat" /\ tasks[i].input.author = "u2"
    /\ TierDecision(tasks[i]).reason = REASON_DISABLED
    /\ HandlerInvoked(tasks[i])
    /\ Called(tasks[i], "exportChatLog")

(***************************************************************************)
(* A method declared with @Command directly above it and restricting       *)
(* decorators written above @Command, then dispatched by                   *)
(* executePrefixCommand for callers of every kind.  The environment does   *)
(* not fail here.                                                          *)
(***************************************************************************)
\* most restricting decorators on the method
MaxDeclared == 2

Restrictions ==
  << D("AdminOnly", NoArg),
     D("ModOnly", NoArg),
     D("RequirePermission", <<"BanMembers">>),
     D("UseGuard", "guildOnly"),
     D("Cooldown", 5),
     D("Arg", [name |-> "name", type |-> "string", required |-> TRUE]),
     D("ValidateWith", "createcategory"),
     D("UseInterceptor", "logging") >>

\* the restrictions of one declaration, in the order they are applied
RestrictionLists ==
  UNION {{d \in [1..n -> 1..Len(Restrictions)] : \A i \in 1..(n - 1) : d[i] < d[i + 1]} :
           n \in 0..MaxDeclared}

DeclInvocations ==
  { Invocation("u0", <<"p","i","n","g">>, <<TargetMention>>),
    Invocation("u1", <<"p","i","n","g">>, <<TargetMention>>),
    Invocation("u2", <<"p","i","n","g">>, <<TargetMention>>),
    Invocation("u2", <<"p","i","n","g">>, <<>>),
    [Invocation("u2", <<"p","i","n","g">>, <<TargetMention>>) EXCEPT !.dm = TRUE] }

DeclInit ==
  /\ tasks = <<>>
  /\ now = StartNow
  /\ commandCooldowns = <<>>
  /\ cooldowns = <<>>
  /\ \E declared \in RestrictionLists :
       /\ query = [declared |-> [i \in 1..Len(declared) |-> Restrictions[declared[i]]]]
       /\ registry = DecorateAll(EmptyRegistry, "ping",
                                 <<D("Command", [name |-> "ping"])>>
                                   \o [i \in 1..Len(declared) |-> Restrictions[declared[i]]],
                                 1)
  /\ applied = 0
  /\ voiceLocks = {}
  /\ queues = <<>>
  /\ hist = NoHistory
  /\ answer = NoAnswer

executeDeclared == Invoke(DeclInvocations)

\* a suspended dispatch runs to its end
DeclComplete ==
  /\ \E i \in 1..Len(tasks) :
       /\ tasks[i].pc = "running"
       /\ tasks' = [tasks EXCEPT ![i] = Finish(tasks[i], registry, {})]
  /\ UNCHANGED <<callVars, regVars, clockVars>>

DeclNext ==
  \/ executeDeclared
  \/ GuardsSettle
  \/ DeclComplete

DeclSpec == DeclInit /\ [][DeclNext]_vars

(***************************************************************************)
(* Claims about decorators written above @Command (DeclSpec).              *)
(***************************************************************************)
Declares(d) == \E i \in 1..Len(query.declared) : query.declared[i].d = d
DeclaredArgs ==
  IF Declares("Arg") THEN <<ArgDef([name |-> "name", type |-> "string", required |-> TRUE])>>
  ELSE <<>>
\* an earlier dispatch of the same caller passed the cooldown at this reading
ArmedBefore(i) ==
  \E j \in 1..(i - 1) :
    /\ tasks[j].input.author = tasks[i].input.author
    /\ tasks[j].cd.checked /\ tasks[j].cd.allowed
    /\ tasks[i].cd.checked => tasks[i].cd.at - tasks[j].cd.at < 5000
EnteredInterceptor(task, name) ==
  \E k \in 1..Len(task.trace) :
    task.trace[k].op = "interceptor" /\ task.trace[k].name = name

\* C34: every restriction declared by a decorator written above @Command
\* (and so applied after the command was registered) is in force when
\* executePrefixCommand dispatches the command: the handler does not run
\* for a caller the restriction excludes, and a declared interceptor runs
\* around the handler.
C34_LateDecoratorsInForce ==
  \A i \in 1..Len(tasks) :
    (tasks[i].entry = "executePrefixCommand" /\ Done(tasks[i]) /\ "declared" \in DOMAIN query) =>
      /\ tasks[i].route # "not-found"
      /\ HandlerInvoked(tasks[i]) =>
           /\ Declares("AdminOnly") => memberHas(tasks[i].input, "Administrator")
           /\ Declares("ModOnly") => memberHas(tasks[i].input, "ManageMessages")
           /\ Declares("RequirePermission") => memberHas(tasks[i].input, "BanMembers")
           /\ Declares("UseGuard") => guardAllows("guildOnly", tasks[i].input)
           /\ Declares("Cooldown") => ~ArmedBefore(i)
           /\ Declares("Arg") => tasks[i].input.rawArgs # <<>>
           /\ Declares("ValidateWith") =>
                safeParse("createcategory",
                          parseArgs(tasks[i].input.rawArgs, DeclaredArgs).parsed)
           /\ Declares("UseInterceptor") => EnteredInterceptor(tasks[i], "logging")

\* @AdminOnly and @Cooldown above @Command: the owner, an Administrator,
\* runs the handler, and the owner's second call at the same clock reading
\* is throttled
C34_Witness ==
  /\ "declared" \in DOMAIN query
  /\ Declares("AdminOnly") /\ Declares("Cooldown")
  /\ Len(tasks) = 2
  /\ Done(tasks[1]) /\ Done(tasks[2])
  /\ tasks[1].input.author = "u0" /\ tasks[2].input.author = "u0"
  /\ HandlerInvoked(tasks[1])
  /\ tasks[2].route = "throttled" /\ ~HandlerInvoked(tasks[2])

(***************************************************************************)
(* Claims about required arguments in the result of parseArgs (ArgSpec).   *)
(***************************************************************************)
\* the result map holds a non-empty value under the definition's name
HasValue(def) ==
  /\ def.name \in DOMAIN answer.parsed
  /\ "str" \in DOMAIN answer.parsed[def.name] => answer.parsed[def.name].str # <<>>
RestBefore(k) == \E j \in 1..(k - 1) : query.defs[j].rest

\* C35: whenever parseArgs returns without an error, every definition
\* declared required, rest definitions included, has a non-empty value in
\* the result map.
C35_RequiredHasValue ==
  (Parsed /\ answer.ok) =>
    \A k \in 1..Len(query.defs) : query.defs[k].required => HasValue(query.defs[k])

\* what does hold: a required definition that is not a rest definition and
\* has no rest definition before it has a value
C35_RequiredPositionalHasValue ==
  (Parsed /\ answer.ok) =>
    \A k \in 1..Len(query.defs) :
      (query.defs[k].required /\ ~query.defs[k].rest /\ ~RestBefore(k))
        => HasValue(query.defs[k])

\* the shape of !send #channel <message> sent without a message: a required
\* argument, then a required rest argument, and one token
C35_RequiredRestMissing ==
  /\ Parsed /\ answer.ok
  /\ Len(query.defs) = 2 /\ Len(query.tokens) = 1
  /\ query.defs[1].required /\ ~query.defs[1].rest
  /\ query.defs[2].required /\ query.defs[2].rest
  /\ HasValue(query.defs[1])
  /\ query.defs[2].name \notin DOMAIN answer.parsed

(***************************************************************************)
(* Claims about a configuration without a bot owner (PermSpec).            *)
(***************************************************************************)
NoOwnerConfigured == query.botOwnerId \in {Unset, ""}

\* what the first rule set holding the command asks of the member itself
MemberMeets(set) ==
  LET m      == query.member
      listed == query.rules.permissions[query.command]
  IN  CASE set \in {"disabled", "ownerOnly"}      -> FALSE
        [] set \in {"adminRequired", "adminOnly"} -> has(m, "Administrator")
        [] set = "modRequired"   -> hasModPerms(m)
        [] set = "commanderOnly" ->
             hasCommanderRole(m) \/ query.guildOwnerId = query.authorId
        [] set = "permissions"   -> hasPerms(m, listed)
        [] set = "public"        -> TRUE

\* C36: when BOT_OWNER_ID is unset or empty no caller is treated as bot owner:
\* every Disabled-by-default and Owner-only command is denied to every caller,
\* and in every other tier a caller is allowed only by meeting the tier's own
\* requirement.
C36_NoOwnerNoBypass ==
  (answer # NoAnswer /\ NoOwnerConfigured) =>
    /\ query.command \in query.rules.disabled \cup query.rules.ownerOnly
         => ~answer.allowed
    /\ answer.allowed =>
         /\ query.member # NoMember
         /\ MemberMeets(FirstSet(query.rules, query.command))

\* an Administrator who is the guild's owner asks for an Owner-only command
\* while BOT_OWNER_ID is the empty string, and is refused
C36_Witness ==
  /\ answer # NoAnswer /\ query.botOwnerId = ""
  /\ query.rules = SourceRules
  /\ query.command \in BOT_OWNER_ONLY_COMMANDS
  /\ query.member # NoMember /\ "Administrator" \in query.member.permissions
  /\ query.guildOwnerId = query.authorId
  /\ answer = Deny(REASON_OWNER)

(***************************************************************************)
(* Claims about the lock functions (LockSpec).                             *)
(***************************************************************************)
CreatorConfigured == query.creatorId \notin {Unset, ""}
ByCreator(call) == CreatorConfigured /\ call.userId = query.creatorId

\* C37: a guild's voice lock changes only through the creator's own lockVoice
\* or unlockVoice call for that guild: a call by anyone else returns false and
\* leaves every guild's lock unchanged, a call for one guild never changes
\* another guild's lock, and when no creator id is configured no guild is
\* ever locked.
C37_LockChangesByCreatorOnly ==
  [][ /\ ~ByCreator(answer') => (~answer'.ok /\ voiceLocks' = voiceLocks)
      /\ \A g \in LockGuilds :
           ((g \in voiceLocks') # (g \in voiceLocks))
             => (ByCreator(answer') /\ answer'.ok /\ answer'.guildId = g)
      /\ ~CreatorConfigured => voiceLocks' = {} ]_vars

\* someone else's call for g2 has returned false while the creator's lock of
\* g1 stands and g2 stays unlocked
C37_Witness ==
  /\ query.creatorId = "u0"
  /\ voiceLocks = {"g1"}
  /\ answer # NoAnswer /\ answer.op = "lockVoice"
  /\ answer.userId = "u1" /\ answer.guildId = "g2" /\ ~answer.ok

(***************************************************************************)
(* Claims about playNext (MusicSpec).                                      *)
(***************************************************************************)
\* the tracks the guild's queue still holds, the current one included
RemainingTracks ==
  IF ~hasQueue(queues, GuildId) THEN {}
  ELSE {queues[GuildId].tracks[k] : k \in 1..Len(queues[GuildId].tracks)}
         \cup ({queues[GuildId].currentTrack} \ {NoTrack})
AllRemainingFail == RemainingTracks # {} /\ RemainingTracks \cap query.streamable = {}
QueueIdle == RemainingTracks = {}
LoopOn == hasQueue(queues, GuildId) /\ queues[GuildId].loop

\* C38: if every track remaining in the guild's queue fails to stream,
\* playNext eventually stops retrying and leaves the queue idle (no current
\* track, no queued tracks), whether loop mode is on or off; a track that
\* does stream, added meanwhile, ends the obligation.
C38_FailingTracksEndIdle ==
  AllRemainingFail ~> (QueueIdle \/ ~AllRemainingFail)

\* what does hold: with loop mode off, and for as long as it stays off
C38_EndIdleWhenLoopOff ==
  (AllRemainingFail /\ ~LoopOn) ~> (QueueIdle \/ ~AllRemainingFail \/ LoopOn)

\* loop mode is on and playNext awaits the stream of a track that fails,
\* with nothing else queued: the catch block puts the same track back
C38_RetryingInLoop ==
  /\ LoopOn /\ AllRemainingFail
  /\ queues[GuildId].status = "streaming"
  /\ queues[GuildId].tracks = <<>>
  /\ query.plays = MaxPlays

(***************************************************************************)
(* Claims about the tokens of one handler (PermSpec).                      *)
(***************************************************************************)
\* the decision checkPermission gives the caller of the query for a token
DecisionFor(command) ==
  checkPermission(query.rules, query.botOwnerId,
                  [member |-> query.member, authorId |-> query.authorId,
                   guildOwnerId |-> query.guildOwnerId],
                  command).allowed

\* C31: two tokens that executeCommand dispatches to the same handler get
\* the same checkPermission decision for every caller.
C31_SameHandlerSameDecision ==
  Answered => \A other \in sameHandler(query.command) : DecisionFor(other) = answer.allowed

\* what does hold: every group but automodrules/automod decides alike
C31_OtherGroupsAgree ==
  Answered =>
    \A g \in CASE_GROUPS \ {{"automodrules", "automod"}} :
      \A a \in g, b \in g : DecisionFor(a) = DecisionFor(b)

\* a member without ManageGuild is allowed !automodrules and denied !automod,
\* which runs the same getAutomodRules
C31_AutomodRulesOpen ==
  /\ Answered
  /\ query.rules = SourceRules
  /\ query.command = "automodrules"
  /\ query.member # NoMember /\ query.member.permissions = {}
  /\ answer.allowed
  /\ ~DecisionFor("automod")

====
